---- MODULE Spec2Model ----
(***************************************************************************)
(* A model of the spicy-regs ETL: etl/etl.py (main, process_agency,        *)
(* merge_staging_files, optimize_parquet) and the Prefect flow in          *)
(* src/spicy_regs/pipeline (pipeline, process_agency, extract, transform,  *)
(* load).  The local output directory, the staging directory and the R2    *)
(* bucket are state; one run of the program is a walk of pc from "idle"    *)
(* back to "idle".  The output directory is the same in every run          *)
(* (--output-dir).  Spec is the normal run (without --optimize and         *)
(* --skip-upload); SpecMerge is the --merge-only run and SpecOpt the       *)
(* --optimize-only run.                                                    *)
(***************************************************************************)
EXTENDS Integers, Sequences, FiniteSets, Bags, TLC

(***************************************************************************)
(* Bounds of the model.                                                    *)
(***************************************************************************)
\* Number of runs of the program in one behaviour.
MaxRuns == 2

(***************************************************************************)
(* DATA_TYPES: the record kinds in declaration order and their schemas.    *)
(***************************************************************************)
Kinds == <<"dockets", "documents", "comments">>

KindSet == {Kinds[i] : i \in 1..Len(Kinds)}

Schema(kind) ==
    CASE kind = "dockets" ->
           <<"docket_id", "agency_code", "title", "docket_type",
             "modify_date", "abstract">>
      [] kind = "documents" ->
           <<"document_id", "docket_id", "agency_code", "title",
             "document_type", "posted_date", "modify_date",
             "comment_start_date", "comment_end_date", "file_url">>
      [] kind = "comments" ->
           <<"comment_id", "docket_id", "agency_code", "title", "comment",
             "document_type", "posted_date", "modify_date", "receive_date">>

ColSet(cols) == {cols[i] : i \in 1..Len(cols)}

(***************************************************************************)
(* The source bucket: five objects.  Each key lies under one agency        *)
(* prefix and matches one kind's path pattern.  The content of an object   *)
(* is "ok" (a well-formed record), "badattrs" (JSON whose data is null, on *)
(* which the extract lambda raises AttributeError), "noid" (a record       *)
(* whose data has no id: the extracted row has a null identifier) or       *)
(* "notitle" (a record with an id whose attributes have no title).         *)
(***************************************************************************)
Keys == {"k1", "k2", "k3", "k4", "k5"}

Agencies == {"A", "B", "C"}

KeyAgency(k) == IF k \in {"k1", "k2", "k5"} THEN "A" ELSE "B"

KeyKind(k) == IF k = "k4" THEN "comments" ELSE "dockets"

KeyContent(k) ==
    IF k = "k3" THEN "badattrs"
    ELSE IF k = "k5" THEN "noid"
    ELSE IF k = "k4" THEN "notitle" ELSE "ok"

\* The object is a record that carries an identifier.
HasId(k) == KeyContent(k) \in {"ok", "notitle"}

\* The objects whose GET may fail in a run (a transient network error);
\* the GETs of the others always succeed.
Flaky == {"k2"}

\* The outcomes of the GETs of one turn: the keys that are served.
NetOutcomes(files) == {files \ bad : bad \in SUBSET (files \cap Flaky)}

\* The values the model gives to AGENCIES / --agency / get_agencies():
\* the discovered list, and an allowlist that names an agency twice.
AgencyLists == {<<"A", "B">>, <<"A", "A">>}

(***************************************************************************)
(* Files.  A file is absent, partially written (opened for writing and not *)
(* completed: unreadable as Parquet), or a table: its column list and the  *)
(* bag of its rows.  A row is a function from column names to cells.       *)
(***************************************************************************)
Null == "null"

None == [c \in {"none"} |-> "none"]

Absent == [st |-> "absent"]

Partial == [st |-> "partial"]

Table(cols, rows) == [st |-> "ok", cols |-> cols, rows |-> rows]

KeyFile(keys) == [st |-> "ok", keys |-> keys]

Exists(f) == f.st # "absent"

Readable(f) == f.st = "ok"

RowsOf(f) == IF Readable(f) THEN f.rows ELSE EmptyBag

(***************************************************************************)
(* Pure functions of the program.                                          *)
(***************************************************************************)
\* DATA_TYPES[kind]["extract"]: the flat row of a well-formed record.  Every
\* cell is read with .get, so a missing attribute (the id, the title) gives
\* a null cell; every other cell is marked with the key of the object it
\* came from.
extract(k) ==
    [c \in ColSet(Schema(KeyKind(k))) |->
        IF KeyContent(k) = "noid" /\ c = Schema(KeyKind(k))[1] THEN Null
        ELSE IF KeyContent(k) = "notitle" /\ c = "title" THEN Null
        ELSE k]

\* An extractor that raises KeyError when a record has no title.
extract_raises_without_title(k) == KeyContent(k) \in {"badattrs", "notitle"}

\* d.get("data", {}) returns None when data is null, and .get on it raises.
extract_raises(k) == KeyContent(k) = "badattrs"

\* etl.py download_and_parse: any exception (GET, decode, json, extract)
\* becomes None.  net: the GET of this call succeeded.
download_and_parse(k, net) ==
    IF ~net \/ extract_raises(k) THEN None ELSE extract(k)

\* A row kept whenever the result is not None, its identifier not looked at.
successful_without_id_test(k, result) == result # None

\* etl.py process_agency, line 244: the row is kept when it is truthy and
\* its first field (the identifier) is truthy.
successful(k, result) ==
    result # None /\ result[Schema(KeyKind(k))[1]] # Null

\* pipeline/extract.py download_and_parse: only the extractor is guarded;
\* a failed GET or json.loads raises out of the task.
flow_download_and_parse(k) ==
    IF extract_raises(k) THEN None ELSE extract(k)

\* A listing that does not look at processed_keys.
list_json_files_ignoring_manifest(agency, kind, processed) ==
    {k \in Keys : KeyAgency(k) = agency /\ KeyKind(k) = kind}

\* A listing whose test of processed_keys is inverted.
list_json_files_only_processed(agency, kind, processed) ==
    {k \in Keys : /\ KeyAgency(k) = agency
                  /\ KeyKind(k) = kind
                  /\ k \in processed}

\* list_json_files: the keys under the agency's prefix that match the
\* kind's pattern and are not in processed_keys.
list_json_files(agency, kind, processed) ==
    {k \in Keys : /\ KeyAgency(k) = agency
                  /\ KeyKind(k) = kind
                  /\ ~(processed # {} /\ k \in processed)}

\* A selection of the target columns that adds no column.
ConformRow_no_fill(row, target) ==
    [c \in ColSet(target) \cap DOMAIN row |-> row[c]]

\* merge_staging_files, lines 314-322: add each missing target column as
\* nulls, then select the target columns in order.
ConformRow(row, target) ==
    [c \in ColSet(target) |-> IF c \in DOMAIN row THEN row[c] ELSE Null]

RECURSIVE ConformBag(_, _, _)
ConformBag(rows, todo, target) ==
    IF todo = {} THEN EmptyBag
    ELSE LET r == CHOOSE x \in todo : TRUE
         IN  [x \in {ConformRow(r, target)} |-> rows[r]]
                (+) ConformBag(rows, todo \ {r}, target)

\* A writer that writes each distinct row of a file once.
ConformTable_distinct(f, target) ==
    ConformBag(SetToBag(DOMAIN f.rows), DOMAIN f.rows, target)

ConformTable(f, target) == ConformBag(f.rows, DOMAIN f.rows, target)

(***************************************************************************)
(* State.                                                                  *)
(***************************************************************************)
VARIABLES
    impl,          \* "etl": etl/etl.py main; "flow": the Prefect pipeline
    agencies,      \* the agencies found: --agency, AGENCIES or get_agencies
    batch,         \* --batch-number and --batch-size
    agencyList,    \* the agency list the run processes
    pc,            \* where main / pipeline is
    runs,          \* runs started so far
    fullRefresh,   \* --full-refresh of the current run
    mergeOnly,     \* --merge-only of the current run
    manifestFile,  \* output_dir/manifest.parquet
    outFile,       \* output_dir/<kind>.parquet
    tempFile,      \* output_dir/<kind>_merged.parquet
    staging,       \* staging/<kind>/<agency>.parquet
    r2,            \* the R2 bucket: manifest and per-kind files
    processedKeys, \* processed_keys
    totalRows,     \* total_rows
    allNewKeys,    \* all_new_keys (a bag: the list's order is never read)
    task,          \* the agency tasks submitted to the executor
    cur,           \* loop index of the download / merge / upload loops
    mFiles,        \* merge: the input files not yet written to the writer
    optDir,        \* output_dir/comments_optimized: partition -> file
    optYears,      \* optimize_parquet: valid years still to write
    \* history, read by the properties only
    fetched,       \* keys download_and_parse was called for in this run
    loaded,        \* what load_manifest returned in this run
    startKeys,     \* the durable manifest's keys when the run started
    startOut,      \* the output files when the run started
    mergePre,      \* merge: the inputs of the kind being merged
    mergeReturned, \* merge_staging_files returned in this run
    saved,         \* save_manifest was called in this run
    hist           \* how the previous run ended: "done" ("done_refresh"
                   \* under --full-refresh), "no_agencies" (the batch slice
                   \* was empty), "aborted" (an exception),
                   \* "merge_error" (an exception reading a merge input),
                   \* "upload_error" (an exception of an upload),
                   \* "crashed", "crashed_after_merge" (killed after
                   \* merge_staging_files returned, before save_manifest,
                   \* with the new keys whose rows it had merged)

runVars == <<processedKeys, totalRows, allNewKeys, task, cur, mFiles>>

fsVars == <<manifestFile, outFile, tempFile, staging>>

optVars == <<optDir, optYears>>

ghostVars == <<fetched, loaded, startKeys, startOut, mergePre, mergeReturned,
               saved, hist>>

vars == <<impl, agencies, batch, agencyList, pc, runs, fullRefresh, mergeOnly, manifestFile,
          outFile, tempFile, staging, r2, processedKeys,
          totalRows, allNewKeys, task, cur, mFiles, optDir, optYears, fetched,
          loaded, startKeys, startOut, mergePre, mergeReturned, saved, hist>>

ZeroRows == [kind \in KindSet |-> 0]

NoFiles == [kind \in KindSet |-> Absent]

NoStaging == [p \in KindSet \X Agencies |-> Absent]

AnyRows(total) == \E kind \in KindSet : total[kind] > 0

ManifestKeys(f) == IF Readable(f) THEN f.keys ELSE {}

\* The bucket after an earlier complete run, made before the object k3 was
\* published, that recorded every object whose record it kept: etl.py the
\* well-formed ones, the flow also the one without identifier.
PriorKeys ==
    {k \in Keys \ {"k3"} : impl = "flow" \/ HasId(k)}

PriorTable(kind) ==
    LET ks == {k \in PriorKeys : KeyKind(k) = kind}
    IN  IF ks = {} THEN Absent
        ELSE Table(Schema(kind), SetToBag({extract(k) : k \in ks}))

EmptyR2 == [manifest |-> Absent, data |-> NoFiles, optimized |-> <<>>]

PriorR2 == [manifest |-> KeyFile(PriorKeys),
            data |-> [kind \in KindSet |-> PriorTable(kind)],
            optimized |-> <<>>]

\* output_dir/comments_optimized does not exist.
NoDir == [st |-> "absent", parts |-> <<>>]

\* upload_directory_to_r2: every partition file is put under its key; the
\* keys of other partitions in the bucket stay.
UploadDirectory(remote, dir) ==
    [p \in DOMAIN remote \cup DOMAIN dir.parts |->
        IF p \in DOMAIN dir.parts THEN dir.parts[p] ELSE remote[p]]

\* No kind merged yet in this run.
NoMerge == [kind |-> "none", out |-> Absent, stg |-> [a \in Agencies |-> Absent]]

\* batch_number is None: no --batch-number was given.
NoBatch == [given |-> FALSE, number |-> 0, size |-> 0]

Min(a, b) == IF a < b THEN a ELSE b

\* A slice that keeps one entry more than the batch size.
Slice_one_more(list, start, stop) ==
    SubSeq(list, Min(start, Len(list)) + 1, Min(stop + 1, Len(list)))

\* list[start:stop] for 0 <= start <= stop: the indices are clamped to the
\* length of the list.
Slice(list, start, stop) ==
    SubSeq(list, Min(start, Len(list)) + 1, Min(stop, Len(list)))

\* main, lines 585-590: agencies[start_idx:end_idx] when --batch-number is
\* given, the whole list otherwise.
BatchOf(list, b) ==
    IF b.given
    THEN Slice(list, b.number * b.size, b.number * b.size + b.size)
    ELSE list

\* The state every specification starts the program in: nothing run yet,
\* an empty output directory.
InitIdle ==
    /\ pc = "idle"
    /\ runs = 0
    /\ fullRefresh = FALSE
    /\ mergeOnly = FALSE
    /\ manifestFile = Absent
    /\ tempFile = NoFiles
    /\ processedKeys = {}
    /\ totalRows = ZeroRows
    /\ allNewKeys = EmptyBag
    /\ task = <<>>
    /\ cur = 0
    /\ mFiles = {}
    /\ optDir = NoDir
    /\ optYears = <<>>
    /\ fetched = {}
    /\ loaded = {}
    /\ startKeys = {}
    /\ startOut = NoFiles
    /\ mergePre = NoMerge
    /\ mergeReturned = FALSE
    /\ saved = FALSE
    /\ hist = [how |-> "none", unsaved |-> {}]

Init ==
    /\ InitIdle
    /\ impl \in {"etl", "flow"}
    /\ agencyList \in AgencyLists
    /\ agencies = agencyList
    /\ batch = NoBatch
    /\ outFile = NoFiles
    /\ staging = NoStaging
    /\ r2 \in {EmptyR2, PriorR2}

(***************************************************************************)
(* The end of a run: the process is gone, the files stay.                  *)
(***************************************************************************)
EndRun(how) ==
    /\ pc' = "idle"
    /\ processedKeys' = {}
    /\ totalRows' = ZeroRows
    /\ allNewKeys' = EmptyBag
    /\ task' = <<>>
    /\ cur' = 0
    /\ mFiles' = {}
    /\ fetched' = {}
    /\ loaded' = {}
    /\ startKeys' = {}
    /\ startOut' = NoFiles
    /\ mergePre' = NoMerge
    /\ mergeReturned' = FALSE
    /\ saved' = FALSE
    /\ hist' = IF how = "crashed" /\ mergeReturned /\ ~saved
                THEN [how |-> "crashed_after_merge",
                      unsaved |-> {k \in BagToSet(allNewKeys) :
                          CopiesIn(extract(k), RowsOf(outFile[KeyKind(k)])) > 0}]
                ELSE [how |-> how, unsaved |-> {}]
    /\ UNCHANGED <<impl, agencies, batch, agencyList, runs, fullRefresh,
                   mergeOnly, optDir, optYears>>

\* The process is killed: at any point of a run.
Crash ==
    /\ pc # "idle"
    /\ EndRun("crashed")
    /\ UNCHANGED <<manifestFile, outFile, tempFile, staging, r2>>

\* main, lines 556-561 (pipeline, lines 241-246): a run starts.
StartRun ==
    /\ pc = "idle"
    /\ runs < MaxRuns
    /\ runs' = runs + 1
    /\ \E fr \in BOOLEAN :
          /\ fullRefresh' = fr
          /\ pc' = IF fr THEN "discover" ELSE "load"
    /\ mergeOnly' = FALSE
    /\ startKeys' = ManifestKeys(IF Exists(manifestFile) THEN manifestFile
                                 ELSE r2.manifest)
    /\ startOut' = outFile
    /\ UNCHANGED <<impl, agencies, batch, agencyList, fsVars, r2, runVars,
                   optVars, fetched, loaded, mergePre, mergeReturned, saved,
                   hist>>

cfgVars == <<impl, agencies, batch, agencyList, runs, fullRefresh, mergeOnly>>

Abort == EndRun("aborted")

(***************************************************************************)
(* load_manifest (etl.py 131-150, pipeline/extract.py 37-55) and           *)
(* download_from_r2, which opens the local path and writes the response    *)
(* into it chunk by chunk; an exception on the way returns False and       *)
(* leaves what was written.                                                *)
(***************************************************************************)
LoadLocal ==
    /\ pc = "load"
    /\ Readable(manifestFile)
    /\ processedKeys' = manifestFile.keys
    /\ loaded' = manifestFile.keys
    /\ pc' = "download"
    /\ cur' = 1
    /\ UNCHANGED <<cfgVars, fsVars, r2, totalRows, allNewKeys, task, mFiles,
                   optVars, fetched, startKeys, startOut, mergePre,
                   mergeReturned, saved, hist>>

\* manifest.parquet exists and is no Parquet file: read_parquet raises.
LoadLocalError ==
    /\ pc = "load"
    /\ manifestFile = Partial
    /\ Abort
    /\ UNCHANGED <<fsVars, r2>>

LoadRemoteStart ==
    /\ pc = "load"
    /\ ~Exists(manifestFile)
    /\ IF Exists(r2.manifest)
       THEN /\ manifestFile' = Partial
            /\ pc' = "load_dl"
            /\ cur' = cur
       ELSE /\ manifestFile' = manifestFile
            /\ pc' = "download"
            /\ cur' = 1
    /\ UNCHANGED <<cfgVars, outFile, tempFile, staging, r2, processedKeys,
                   totalRows, allNewKeys, task, mFiles, optVars, ghostVars>>

LoadRemoteFinish ==
    /\ pc = "load_dl"
    /\ manifestFile' = r2.manifest
    /\ processedKeys' = ManifestKeys(r2.manifest)
    /\ loaded' = ManifestKeys(r2.manifest)
    /\ pc' = "download"
    /\ cur' = 1
    /\ UNCHANGED <<cfgVars, outFile, tempFile, staging, r2, totalRows,
                   allNewKeys, task, mFiles, optVars, fetched, startKeys,
                   startOut, mergePre, mergeReturned, saved, hist>>

\* The stream breaks: download_from_r2 returns False, "starting fresh".
LoadRemoteError ==
    /\ pc = "load_dl"
    /\ pc' = "download"
    /\ cur' = 1
    /\ UNCHANGED <<cfgVars, fsVars, r2, processedKeys, totalRows, allNewKeys,
                   task, mFiles, optVars, ghostVars>>

(***************************************************************************)
(* main, lines 563-573 (download_existing_parquet): with a non-empty       *)
(* manifest, fetch each kind's file that is not in the output directory.   *)
(***************************************************************************)
DownloadNext ==
    /\ pc = "download"
    /\ IF processedKeys = {} \/ cur > Len(Kinds)
       THEN /\ pc' = "discover"
            /\ cur' = 0
            /\ outFile' = outFile
       ELSE IF Exists(outFile[Kinds[cur]]) \/ ~Exists(r2.data[Kinds[cur]])
       THEN /\ pc' = "download"
            /\ cur' = cur + 1
            /\ outFile' = outFile
       ELSE /\ pc' = "download_dl"
            /\ cur' = cur
            /\ outFile' = [outFile EXCEPT ![Kinds[cur]] = Partial]
    /\ UNCHANGED <<cfgVars, manifestFile, tempFile, staging, r2,
                   processedKeys, totalRows, allNewKeys, task, mFiles,
                   optVars, ghostVars>>

DownloadFinish ==
    /\ pc = "download_dl"
    /\ outFile' = [outFile EXCEPT ![Kinds[cur]] = r2.data[Kinds[cur]]]
    /\ pc' = "download"
    /\ cur' = cur + 1
    /\ UNCHANGED <<cfgVars, manifestFile, tempFile, staging, r2,
                   processedKeys, totalRows, allNewKeys, task, mFiles,
                   optVars, ghostVars>>

\* The stream breaks: False is returned and logged, the run goes on.
DownloadError ==
    /\ pc = "download_dl"
    /\ pc' = "download"
    /\ cur' = cur + 1
    /\ UNCHANGED <<cfgVars, fsVars, r2, processedKeys, totalRows, allNewKeys,
                   task, mFiles, optVars, ghostVars>>

(***************************************************************************)
(* main, lines 575-633 (pipeline, lines 248-292): the agency list, and one *)
(* task per entry of it submitted to the executor.  The executor is wider  *)
(* than the model's lists (parallel_agencies = 5), so every task runs at   *)
(* once.                                                                   *)
(***************************************************************************)
\* asked records the keys the task submitted to download_and_parse, got
\* those whose GET succeeded, raised the call whose exception ended it.
NewTask ==
    [st |-> "running", results |-> ZeroRows, newKeys |-> {}, asked |-> {},
     got |-> {}, raised |-> "none"]

\* A task whose function raised: its future holds the exception only.
FailedTask(call) ==
    [st |-> "failed", results |-> ZeroRows, newKeys |-> {}, asked |-> {},
     got |-> {}, raised |-> call]

\* Lines 575-594: the agencies, the batch slice, and the return when no
\* agency is left ("No agencies to process!").
Discover ==
    /\ pc = "discover"
    /\ IF BatchOf(agencies, batch) = <<>>
       THEN /\ EndRun("no_agencies")
            /\ UNCHANGED <<fsVars, r2>>
       ELSE /\ agencyList' = BatchOf(agencies, batch)
            /\ pc' = "process"
            /\ task' = [i \in 1..Len(BatchOf(agencies, batch)) |-> NewTask]
            /\ UNCHANGED <<impl, agencies, batch, runs, fullRefresh, mergeOnly,
                           fsVars, r2, processedKeys, totalRows, allNewKeys,
                           cur, mFiles, optVars, ghostVars>>

(***************************************************************************)
(* process_agency: the loop over the kinds.  For each kind the keys are    *)
(* listed, fetched in the inner pool and parsed, and the rows kept are     *)
(* written to staging/<kind>/<agency>.parquet.  net is the set of keys     *)
(* whose GET succeeds in this call.                                        *)
(***************************************************************************)
KindIndex(kind) == CHOOSE i \in 1..Len(Kinds) : Kinds[i] = kind

\* A collection that keeps nothing of a batch in which one result failed.
EtlGood_all_or_nothing(files, net) ==
    IF \A k \in files : successful(k, download_and_parse(k, k \in net))
    THEN files ELSE {}

\* etl.py, lines 239-248: the keys whose result is kept.
EtlGood(files, net) ==
    {k \in files : successful(k, download_and_parse(k, k \in net))}

\* etl.py, line 263: new_keys.extend(successful_keys).
EtlNewKeys(files, net) == EtlGood(files, net)

\* etl.py, lines 250-258: the staging file, written when a row was kept.
EtlStaged(kind, files, net) ==
    IF EtlGood(files, net) = {} THEN Absent
    ELSE Table(Schema(kind),
               SetToBag({download_and_parse(k, TRUE) : k \in EtlGood(files, net)}))

\* pipeline.py, lines 175-178: the records that are not None.
FlowKept(files) == {k \in files : flow_download_and_parse(k) # None}

\* pipeline.py, line 182: new_keys.extend(keys).
FlowNewKeys(files) == files

\* write_staging (pipeline/transform.py 16-34): no file for no records.
write_staging(kind, files) ==
    IF FlowKept(files) = {} THEN Absent
    ELSE Table(Schema(kind),
               SetToBag({flow_download_and_parse(k) : k \in FlowKept(files)}))

\* A task that is handed an empty set in place of processed_keys.
Listed_without_manifest(a, kind) == list_json_files(a, kind, {})

\* process_agency, line 228: the listing, given processed_keys.
Listed(a, kind) == list_json_files(a, kind, processedKeys)

\* The staging directory after the loop has done the first n kinds for
\* agency a: a file is replaced when one is written, and left otherwise.
StagingAfter(a, n, net) ==
    [p \in KindSet \X Agencies |->
        LET new == IF impl = "etl"
                   THEN EtlStaged(p[1], Listed(a, p[1]), net)
                   ELSE write_staging(p[1], Listed(a, p[1]))
        IN  IF p[2] = a /\ KindIndex(p[1]) <= n /\ Exists(new)
            THEN new ELSE staging[p]]

\* The kinds for which task i, given the outcomes net, writes a staging
\* file that another task of the run, for the same agency, has written as
\* well: the two writes of the one path are not ordered.
RacedKinds(i, net) ==
    {kind \in KindSet :
        /\ IF impl = "etl"
           THEN EtlGood(Listed(agencyList[i], kind), net) # {}
           ELSE FlowKept(Listed(agencyList[i], kind)) # {}
        /\ \E j \in DOMAIN task \ {i} :
              /\ agencyList[j] = agencyList[i]
              /\ task[j].st \in {"returned", "done"}
              /\ task[j].results[kind] > 0}

\* What the staging directory may hold after task i wrote `after`: a file
\* written by two tasks at once is the later writer's file or a mix of the
\* bytes of both, which is no Parquet file.
WriteOutcomes(i, after, net) ==
    {[p \in DOMAIN after |-> IF p \in torn THEN Partial ELSE after[p]] :
        torn \in SUBSET {<<kind, agencyList[i]>> : kind \in RacedKinds(i, net)}}

\* The keys submitted to download_and_parse in the first n kinds.
FetchedIn(a, n) ==
    UNION {Listed(a, Kinds[j]) : j \in 1..n}

\* etl.py process_agency, lines 213-265: results and new_keys.
ProcessAgency(i) ==
    /\ pc = "process"
    /\ impl = "etl"
    /\ task[i].st = "running"
    /\ LET a == agencyList[i]
           n == Len(Kinds)
       IN  \E net \in NetOutcomes(FetchedIn(a, n)) :
             /\ staging' \in WriteOutcomes(i, StagingAfter(a, n, net), net)
             /\ task' = [task EXCEPT ![i] =
                   [st |-> "returned",
                    results |-> [kind \in KindSet |->
                       Cardinality(EtlGood(Listed(a, kind), net))],
                    newKeys |-> UNION {EtlNewKeys(Listed(a, kind), net) :
                                          kind \in KindSet},
                    asked |-> FetchedIn(a, n),
                    got |-> net,
                    raised |-> "none"]]
             /\ fetched' = fetched \cup FetchedIn(a, n)
    /\ UNCHANGED <<cfgVars, pc, manifestFile, outFile, tempFile, r2,
                   processedKeys, totalRows, allNewKeys, cur, mFiles, optVars,
                   loaded, startKeys, startOut, mergePre, mergeReturned,
                   saved, hist>>

\* pipeline.py process_agency, lines 146-187.
FlowProcessAgency(i) ==
    /\ pc = "process"
    /\ impl = "flow"
    /\ task[i].st = "running"
    /\ LET a == agencyList[i]
           n == Len(Kinds)
       IN  /\ staging' \in WriteOutcomes(i, StagingAfter(a, n, FetchedIn(a, n)),
                                          FetchedIn(a, n))
           /\ task' = [task EXCEPT ![i] =
                 [st |-> "returned",
                  results |-> [kind \in KindSet |->
                     Cardinality(FlowKept(Listed(a, kind)))],
                  newKeys |-> UNION {FlowNewKeys(Listed(a, kind)) :
                                        kind \in KindSet},
                  asked |-> FetchedIn(a, n),
                  got |-> FetchedIn(a, n),
                  raised |-> "none"]]
           /\ fetched' = fetched \cup FetchedIn(a, n)
    /\ UNCHANGED <<cfgVars, pc, manifestFile, outFile, tempFile, r2,
                   processedKeys, totalRows, allNewKeys, cur, mFiles, optVars,
                   loaded, startKeys, startOut, mergePre, mergeReturned,
                   saved, hist>>

\* pipeline.py, lines 173-176: a GET that still fails after the task's
\* retries raises out of future.result() while the loop is at kind j; the
\* subflow fails with the kinds before j staged.
FlowFetchError(i) ==
    /\ pc = "process"
    /\ impl = "flow"
    /\ task[i].st = "running"
    /\ \E j \in 1..Len(Kinds) :
          /\ Listed(agencyList[i], Kinds[j]) \cap Flaky # {}
          /\ staging' = StagingAfter(agencyList[i], j - 1,
                                     FetchedIn(agencyList[i], j - 1))
          /\ fetched' = fetched \cup FetchedIn(agencyList[i], j)
    /\ task' = [task EXCEPT ![i] = FailedTask("get")]
    /\ UNCHANGED <<cfgVars, pc, manifestFile, outFile, tempFile, r2,
                   processedKeys, totalRows, allNewKeys, cur, mFiles, optVars,
                   loaded, startKeys, startOut, mergePre, mergeReturned,
                   saved, hist>>

\* list_json_files raises at kind j (the listing is not guarded): the task
\* fails with the kinds before j staged.
ListError(i) ==
    /\ pc = "process"
    /\ task[i].st = "running"
    /\ \E j \in 1..Len(Kinds) :
       \E net \in NetOutcomes(FetchedIn(agencyList[i], j - 1)) :
          /\ impl = "flow" => net = FetchedIn(agencyList[i], j - 1)
          /\ staging' = StagingAfter(agencyList[i], j - 1, net)
          /\ fetched' = fetched \cup FetchedIn(agencyList[i], j - 1)
    /\ task' = [task EXCEPT ![i] = FailedTask("list")]
    /\ UNCHANGED <<cfgVars, pc, manifestFile, outFile, tempFile, r2,
                   processedKeys, totalRows, allNewKeys, cur, mFiles, optVars,
                   loaded, startKeys, startOut, mergePre, mergeReturned,
                   saved, hist>>

AddRows(total, results) == [kind \in KindSet |-> total[kind] + results[kind]]

\* An update made without the lock from values read before the other
\* tasks' updates: theirs are lost.
Aggregate_lost_update(i) ==
    /\ pc = "process"
    /\ impl = "etl"
    /\ task[i].st = "returned"
    /\ totalRows' = task[i].results
    /\ allNewKeys' = SetToBag(task[i].newKeys)
    /\ processedKeys' = loaded \cup task[i].newKeys
    /\ task' = [task EXCEPT ![i].st = "done"]
    /\ UNCHANGED <<cfgVars, pc, fsVars, r2, cur, mFiles, optVars, ghostVars>>

\* etl.py process_agency_wrapper, lines 619-624: under keys_lock.
Aggregate(i) ==
    /\ pc = "process"
    /\ impl = "etl"
    /\ task[i].st = "returned"
    /\ totalRows' = AddRows(totalRows, task[i].results)
    /\ allNewKeys' = allNewKeys (+) SetToBag(task[i].newKeys)
    /\ processedKeys' = processedKeys \cup task[i].newKeys
    /\ task' = [task EXCEPT ![i].st = "done"]
    /\ UNCHANGED <<cfgVars, pc, fsVars, r2, cur, mFiles, optVars, ghostVars>>

\* A main that goes on to merge as soon as one task has reported.
JoinAgencies_first_completed ==
    /\ pc = "process"
    /\ impl = "etl"
    /\ \E i \in DOMAIN task : task[i].st = "done"
    /\ pc' = IF AnyRows(totalRows) THEN "merge" ELSE "save"
    /\ cur' = 1
    /\ UNCHANGED <<cfgVars, fsVars, r2, processedKeys, totalRows, allNewKeys,
                   task, mFiles, optVars, ghostVars>>

\* etl.py, lines 626-636: leaving the executor's with block waits for every
\* task; then merge, if any rows were staged.
JoinAgencies ==
    /\ pc = "process"
    /\ impl = "etl"
    /\ \A i \in DOMAIN task : task[i].st = "done"
    /\ pc' = IF AnyRows(totalRows) THEN "merge" ELSE "save"
    /\ cur' = 1
    /\ UNCHANGED <<cfgVars, fsVars, r2, processedKeys, totalRows, allNewKeys,
                   task, mFiles, optVars, ghostVars>>

\* future.result() re-raises a task's exception in main (etl.py 630; the
\* flow: thread_map, 279): the run ends there, once the executor has waited
\* for the other tasks.
AgencyFailure ==
    /\ pc = "process"
    /\ \A i \in DOMAIN task :
          task[i].st \in {"failed", IF impl = "etl" THEN "done" ELSE "returned"}
    /\ \E i \in DOMAIN task : task[i].st = "failed"
    /\ Abort
    /\ UNCHANGED <<fsVars, r2>>

RECURSIVE SumResults(_, _)
SumResults(ts, n) ==
    IF n = 0 THEN ZeroRows ELSE AddRows(SumResults(ts, n - 1), ts[n].results)

RECURSIVE AllKeys(_, _)
AllKeys(ts, n) ==
    IF n = 0 THEN EmptyBag ELSE AllKeys(ts, n - 1) (+) SetToBag(ts[n].newKeys)

\* pipeline.py, lines 294-303: main aggregates what thread_map returned.
FlowAggregate ==
    /\ pc = "process"
    /\ impl = "flow"
    /\ \A i \in DOMAIN task : task[i].st = "returned"
    /\ totalRows' = SumResults(task, Len(task))
    /\ allNewKeys' = AllKeys(task, Len(task))
    /\ processedKeys' = processedKeys \cup BagToSet(AllKeys(task, Len(task)))
    /\ pc' = IF AnyRows(SumResults(task, Len(task))) THEN "merge" ELSE "save"
    /\ cur' = 1
    /\ UNCHANGED <<cfgVars, fsVars, r2, task, mFiles, optVars, ghostVars>>

(***************************************************************************)
(* merge_staging_files (etl.py 268-334, pipeline/transform.py 37-97), one  *)
(* kind at a time: cur is the index of the kind.                           *)
(***************************************************************************)
StagingOf(kind) == {a \in Agencies : Exists(staging[<<kind, a>>])}

\* A file list without the existing output.
FilesToMerge_staging_only(kind) == StagingOf(kind)

\* files_to_merge: the existing output first, then the staging files.
FilesToMerge(kind) ==
    (IF Exists(outFile[kind]) THEN {"output"} ELSE {}) \cup StagingOf(kind)

\* A merge without the special case: every kind goes through the writer.
SingleFile_never(kind) == FALSE

\* Lines 296-300: one file to merge and no output file.
SingleFile(kind) ==
    Cardinality(FilesToMerge(kind)) = 1 /\ ~Exists(outFile[kind])

FileAt(kind, f) == IF f = "output" THEN outFile[kind] ELSE staging[<<kind, f>>]

\* The file the writer's loop reads next (glob order within staging is the
\* file system's; a bag of rows does not depend on it).
NextFile(files) ==
    IF "output" \in files THEN "output" ELSE CHOOSE f \in files : TRUE

\* Lines 274-310: skip a kind without staging files, move a single file,
\* or open the writer on <kind>_merged.parquet.
MergeKind ==
    /\ pc = "merge"
    /\ cur <= Len(Kinds)
    /\ LET kind == Kinds[cur]
       IN  IF StagingOf(kind) = {}
           THEN /\ cur' = cur + 1
                /\ UNCHANGED <<pc, outFile, tempFile, staging, mFiles,
                               mergePre>>
           ELSE /\ mergePre' = [kind |-> kind, out |-> outFile[kind],
                                stg |-> [a \in Agencies |->
                                            staging[<<kind, a>>]]]
                /\ IF SingleFile(kind)
                   THEN LET a == CHOOSE x \in StagingOf(kind) : TRUE
                        IN  /\ outFile' = [outFile EXCEPT
                                             ![kind] = staging[<<kind, a>>]]
                            /\ staging' = [staging EXCEPT
                                             ![<<kind, a>>] = Absent]
                            /\ cur' = cur + 1
                            /\ UNCHANGED <<pc, tempFile, mFiles>>
                   ELSE /\ tempFile' = [tempFile EXCEPT ![kind] =
                              [st |-> "writing", cols |-> Schema(kind),
                               rows |-> EmptyBag]]
                        /\ mFiles' = FilesToMerge(kind)
                        /\ pc' = "merge_write"
                        /\ UNCHANGED <<cur, outFile, staging>>
    /\ UNCHANGED <<cfgVars, manifestFile, r2, processedKeys, totalRows,
                   allNewKeys, task, optVars, fetched, loaded, startKeys,
                   startOut, mergeReturned, saved, hist>>

\* A merge that passes over an input file it cannot read.
MergeReadError_skip_file ==
    /\ pc = "merge_write"
    /\ mFiles # {}
    /\ ~Readable(FileAt(Kinds[cur], NextFile(mFiles)))
    /\ mFiles' = mFiles \ {NextFile(mFiles)}
    /\ UNCHANGED <<cfgVars, pc, fsVars, r2, processedKeys, totalRows,
                   allNewKeys, task, cur, optVars, ghostVars>>

\* Lines 311-327: read one input file, conform it, write it.
MergeWrite ==
    /\ pc = "merge_write"
    /\ mFiles # {}
    /\ LET kind == Kinds[cur]
           f == NextFile(mFiles)
       IN  /\ Readable(FileAt(kind, f))
           /\ tempFile' = [tempFile EXCEPT ![kind].rows =
                 @ (+) ConformTable(FileAt(kind, f), Schema(kind))]
           /\ mFiles' = mFiles \ {f}
    /\ UNCHANGED <<cfgVars, pc, manifestFile, outFile, staging, r2,
                   processedKeys, totalRows, allNewKeys, task, cur, optVars,
                   ghostVars>>

\* pq.read_table raises on a file that is no Parquet file: the with block
\* closes the writer and the exception ends the run.
MergeReadError ==
    /\ pc = "merge_write"
    /\ mFiles # {}
    /\ ~Readable(FileAt(Kinds[cur], NextFile(mFiles)))
    /\ tempFile' = [tempFile EXCEPT ![Kinds[cur]].st = "ok"]
    /\ EndRun("merge_error")
    /\ UNCHANGED <<manifestFile, outFile, staging, r2>>

\* Line 310: the with block ends, the writer is closed.
MergeClose ==
    /\ pc = "merge_write"
    /\ mFiles = {}
    /\ tempFile' = [tempFile EXCEPT ![Kinds[cur]].st = "ok"]
    /\ pc' = "merge_unlink"
    /\ UNCHANGED <<cfgVars, manifestFile, outFile, staging, r2, processedKeys,
                   totalRows, allNewKeys, task, cur, mFiles, optVars,
                   ghostVars>>

\* An unlink of the output file issued while the writer is still open.
MergeUnlink_before_close ==
    /\ pc = "merge_write"
    /\ Exists(outFile[Kinds[cur]])
    /\ outFile' = [outFile EXCEPT ![Kinds[cur]] = Absent]
    /\ UNCHANGED <<cfgVars, pc, manifestFile, tempFile, staging, r2,
                   processedKeys, totalRows, allNewKeys, task, cur, mFiles,
                   optVars, ghostVars>>

\* Lines 330-331.
MergeUnlink ==
    /\ pc = "merge_unlink"
    /\ outFile' = [outFile EXCEPT ![Kinds[cur]] = Absent]
    /\ pc' = "merge_rename"
    /\ UNCHANGED <<cfgVars, manifestFile, tempFile, staging, r2,
                   processedKeys, totalRows, allNewKeys, task, cur, mFiles,
                   optVars, ghostVars>>

\* Line 332.
MergeRename ==
    /\ pc = "merge_rename"
    /\ outFile' = [outFile EXCEPT ![Kinds[cur]] = tempFile[Kinds[cur]]]
    /\ tempFile' = [tempFile EXCEPT ![Kinds[cur]] = Absent]
    /\ pc' = "merge"
    /\ cur' = cur + 1
    /\ UNCHANGED <<cfgVars, manifestFile, staging, r2, processedKeys,
                   totalRows, allNewKeys, task, mFiles, optVars, ghostVars>>

\* merge_staging_files returns to main (etl.py 639-643, pipeline.py
\* 305-307).
MergeReturn ==
    /\ pc = "merge"
    /\ cur > Len(Kinds)
    /\ ~mergeOnly
    /\ mergeReturned' = TRUE
    /\ pc' = "cleanup"
    /\ UNCHANGED <<cfgVars, fsVars, r2, runVars, optVars, fetched, loaded,
                   startKeys, startOut, mergePre, saved, hist>>

\* shutil.rmtree(staging_dir).
Cleanup ==
    /\ pc = "cleanup"
    /\ staging' = NoStaging
    /\ pc' = "save"
    /\ UNCHANGED <<cfgVars, manifestFile, outFile, tempFile, r2, runVars,
                   optVars, ghostVars>>

(***************************************************************************)
(* save_manifest and the upload (etl.py 659-680, pipeline.py 317-325).     *)
(***************************************************************************)
SaveManifest ==
    /\ pc = "save"
    /\ IF allNewKeys # EmptyBag
       THEN /\ manifestFile' = KeyFile(processedKeys)
            /\ saved' = TRUE
       ELSE UNCHANGED <<manifestFile, saved>>
    /\ pc' = "upload"
    /\ cur' = 1
    /\ UNCHANGED <<cfgVars, outFile, tempFile, staging, r2, processedKeys,
                   totalRows, allNewKeys, task, mFiles, optVars, fetched,
                   loaded, startKeys, startOut, mergePre, mergeReturned, hist>>

\* An upload loop placed before save_manifest: the manifest is saved after
\* the last upload.
Upload_before_save ==
    /\ pc = "upload"
    /\ IF cur <= Len(Kinds)
       THEN /\ r2' = IF Exists(outFile[Kinds[cur]])
                     THEN [r2 EXCEPT !.data[Kinds[cur]] = outFile[Kinds[cur]]]
                     ELSE r2
            /\ cur' = cur + 1
            /\ pc' = pc
       ELSE /\ r2' = IF Exists(manifestFile)
                     THEN [r2 EXCEPT !.manifest = manifestFile]
                     ELSE r2
            /\ cur' = 0
            /\ pc' = IF saved THEN "done" ELSE "save"
    /\ UNCHANGED <<cfgVars, fsVars, processedKeys, totalRows, allNewKeys,
                   task, mFiles, optVars, ghostVars>>

\* One turn of the upload loop: the kinds' files in order, then (etl.py)
\* the comments_optimized directory, then the manifest; a file that does
\* not exist is passed over.
Upload ==
    /\ pc = "upload"
    /\ IF cur <= Len(Kinds)
       THEN /\ r2' = IF Exists(outFile[Kinds[cur]])
                     THEN [r2 EXCEPT !.data[Kinds[cur]] = outFile[Kinds[cur]]]
                     ELSE r2
            /\ cur' = cur + 1
            /\ pc' = pc
       ELSE IF cur = Len(Kinds) + 1 /\ impl = "etl" /\ optDir.st = "dir"
       THEN /\ r2' = [r2 EXCEPT !.optimized = UploadDirectory(@, optDir)]
            /\ cur' = cur + 1
            /\ pc' = pc
       ELSE /\ r2' = IF Exists(manifestFile)
                     THEN [r2 EXCEPT !.manifest = manifestFile]
                     ELSE r2
            /\ cur' = 0
            /\ pc' = "done"
    /\ UNCHANGED <<cfgVars, fsVars, processedKeys, totalRows, allNewKeys,
                   task, mFiles, optVars, ghostVars>>

\* An upload that removes the local files when the transfer fails.
UploadError_rollback ==
    /\ pc = "upload"
    /\ IF cur <= Len(Kinds) THEN Exists(outFile[Kinds[cur]])
       ELSE Exists(manifestFile)
    /\ outFile' = NoFiles
    /\ manifestFile' = Absent
    /\ EndRun("upload_error")
    /\ UNCHANGED <<tempFile, staging, r2>>

\* client.upload_file raises (upload_r2.py 42-47; nothing catches it): the
\* object in R2 is not replaced and the exception ends the run.
UploadError ==
    /\ pc = "upload"
    /\ IF cur <= Len(Kinds) THEN Exists(outFile[Kinds[cur]])
       ELSE Exists(manifestFile)
    /\ EndRun("upload_error")
    /\ UNCHANGED <<fsVars, r2>>

\* "Done!": main returns.
Finish ==
    /\ pc = "done"
    /\ EndRun(IF fullRefresh THEN "done_refresh" ELSE "done")
    /\ UNCHANGED <<fsVars, r2>>

Next ==
    \/ StartRun
    \/ Crash
    \/ LoadLocal
    \/ LoadLocalError
    \/ LoadRemoteStart
    \/ LoadRemoteFinish
    \/ LoadRemoteError
    \/ DownloadNext
    \/ DownloadFinish
    \/ DownloadError
    \/ Discover
    \/ \E i \in DOMAIN task : ProcessAgency(i)
    \/ \E i \in DOMAIN task : FlowProcessAgency(i)
    \/ \E i \in DOMAIN task : FlowFetchError(i)
    \/ \E i \in DOMAIN task : ListError(i)
    \/ \E i \in DOMAIN task : Aggregate(i)
    \/ JoinAgencies
    \/ AgencyFailure
    \/ FlowAggregate
    \/ MergeKind
    \/ MergeWrite
    \/ MergeReadError
    \/ MergeClose
    \/ MergeUnlink
    \/ MergeRename
    \/ MergeReturn
    \/ Cleanup
    \/ SaveManifest
    \/ Upload
    \/ UploadError
    \/ Finish

Spec == Init /\ [][Next]_vars

(***************************************************************************)
(* Batched runs (etl.py 585-594, pipeline.py 258-273): every run is given  *)
(* the same agency list and batch size and its own batch number.           *)
(***************************************************************************)
MaxBatchNumber == 3

MaxBatchSize == 2

\* The agency lists of the batched runs; the agency C has no objects.
BatchLists == {<<"A", "B", "C">>}

InitBatch ==
    /\ InitIdle
    /\ impl \in {"etl", "flow"}
    /\ agencies \in BatchLists
    /\ agencyList = agencies
    /\ \E s \in 1..MaxBatchSize :
          batch = [given |-> TRUE, number |-> 0, size |-> s]
    /\ outFile = NoFiles
    /\ staging = NoStaging
    /\ r2 \in {EmptyR2, PriorR2}

\* main with --batch-number b: an incremental run.
BatchStart ==
    /\ pc = "idle"
    /\ runs < MaxRuns
    /\ runs' = runs + 1
    /\ \E b \in 0..MaxBatchNumber : batch' = [batch EXCEPT !.number = b]
    /\ fullRefresh' = FALSE
    /\ mergeOnly' = FALSE
    /\ pc' = "load"
    /\ startKeys' = ManifestKeys(IF Exists(manifestFile) THEN manifestFile
                                 ELSE r2.manifest)
    /\ startOut' = outFile
    /\ UNCHANGED <<impl, agencies, agencyList, fsVars, r2, runVars, optVars,
                   fetched, loaded, mergePre, mergeReturned, saved, hist>>

NextBatch ==
    \/ BatchStart
    \/ Crash
    \/ LoadLocal
    \/ LoadLocalError
    \/ LoadRemoteStart
    \/ LoadRemoteFinish
    \/ LoadRemoteError
    \/ DownloadNext
    \/ DownloadFinish
    \/ DownloadError
    \/ Discover
    \/ \E i \in DOMAIN task : ProcessAgency(i)
    \/ \E i \in DOMAIN task : FlowProcessAgency(i)
    \/ \E i \in DOMAIN task : FlowFetchError(i)
    \/ \E i \in DOMAIN task : ListError(i)
    \/ \E i \in DOMAIN task : Aggregate(i)
    \/ JoinAgencies
    \/ AgencyFailure
    \/ FlowAggregate
    \/ MergeKind
    \/ MergeWrite
    \/ MergeReadError
    \/ MergeClose
    \/ MergeUnlink
    \/ MergeRename
    \/ MergeReturn
    \/ Cleanup
    \/ SaveManifest
    \/ Upload
    \/ UploadError
    \/ Finish

SpecBatch == InitBatch /\ [][NextBatch]_vars

(***************************************************************************)
(* Merge-only mode (etl.py 542-552, pipeline.py 231-236): the run merges   *)
(* the staging files it finds and returns.  The files it finds may have    *)
(* been written under an earlier, narrower schema, and the output file may *)
(* be the remains of an interrupted download.                              *)
(***************************************************************************)
\* The columns of a kind before its last column was declared.
OldSchema(kind) == SubSeq(Schema(kind), 1, Len(Schema(kind)) - 1)

\* A Parquet file with the given columns holding the rows of the keys.
FileOf(cols, keys) ==
    Table(cols, SetToBag({[c \in ColSet(cols) |-> extract(k)[c]] : k \in keys}))

\* The output files a merge-only run may find.
OutputChoices(kind) ==
    IF kind = "dockets"
    THEN {Absent, Partial, FileOf(Schema(kind), {"k1"}),
          FileOf(OldSchema(kind), {"k1"})}
    ELSE IF kind = "comments"
    THEN {Absent, FileOf(Schema(kind), {"k4"})}
    ELSE {Absent}

\* The staging files a merge-only run may find.
StagingChoices(kind, a) ==
    IF kind = "dockets" /\ a = "A"
    THEN {Absent, FileOf(Schema(kind), {"k1", "k2"}),
          FileOf(OldSchema(kind), {"k1"})}
    ELSE IF kind = "dockets" /\ a = "B"
    THEN {Absent, FileOf(Schema(kind), {"k3"})}
    ELSE IF kind = "comments" /\ a = "B"
    THEN {Absent, FileOf(OldSchema(kind), {"k4"})}
    ELSE {Absent}

InitMerge ==
    /\ InitIdle
    /\ impl \in {"etl", "flow"}
    /\ agencyList = <<"A", "B">>
    /\ agencies = agencyList
    /\ batch = NoBatch
    /\ r2 = EmptyR2
    /\ \E do \in OutputChoices("dockets"), co \in OutputChoices("comments") :
          outFile = [kind \in KindSet |->
                        IF kind = "dockets" THEN do
                        ELSE IF kind = "comments" THEN co ELSE Absent]
    /\ \E da \in StagingChoices("dockets", "A"),
          db \in StagingChoices("dockets", "B"),
          cb \in StagingChoices("comments", "B") :
          staging = [p \in KindSet \X Agencies |->
                        IF p = <<"dockets", "A">> THEN da
                        ELSE IF p = <<"dockets", "B">> THEN db
                        ELSE IF p = <<"comments", "B">> THEN cb ELSE Absent]

\* main with --merge-only: merge_staging_files is called at once.
MergeOnlyStart ==
    /\ pc = "idle"
    /\ runs < MaxRuns
    /\ runs' = runs + 1
    /\ mergeOnly' = TRUE
    /\ pc' = "merge"
    /\ cur' = 1
    /\ startOut' = outFile
    /\ startKeys' = ManifestKeys(manifestFile)
    /\ UNCHANGED <<impl, agencies, batch, agencyList, fullRefresh, fsVars,
                   r2, processedKeys, totalRows, allNewKeys, task, mFiles,
                   optVars, fetched, loaded, mergePre, mergeReturned, saved,
                   hist>>

\* A merge-only run that goes on to the upload of the merged files.
MergeOnlyReturn_and_upload ==
    /\ pc = "merge"
    /\ cur > Len(Kinds)
    /\ mergeOnly
    /\ r2' = [r2 EXCEPT !.data = [kind \in KindSet |->
                 IF Exists(outFile[kind]) THEN outFile[kind] ELSE @[kind]]]
    /\ EndRun("done")
    /\ UNCHANGED fsVars

\* "Merge complete!" and return: the staging directory is left as it is.
MergeOnlyReturn ==
    /\ pc = "merge"
    /\ cur > Len(Kinds)
    /\ mergeOnly
    /\ EndRun("done")
    /\ UNCHANGED <<fsVars, r2>>

NextMerge ==
    \/ MergeOnlyStart
    \/ MergeKind
    \/ MergeWrite
    \/ MergeReadError
    \/ MergeClose
    \/ MergeUnlink
    \/ MergeRename
    \/ MergeOnlyReturn
    \/ Crash

SpecMerge == InitMerge /\ [][NextMerge]_vars

(***************************************************************************)
(* Optimize-only mode (etl.py 527-540) and optimize_parquet (337-464).     *)
(* Text in the comments file is the sequence of its characters' codes:     *)
(* "2019-" is <<50, 48, 49, 57, 45>>.  The order of the rows in a file is  *)
(* not modelled, so sorting a table leaves its bag of rows as it was.      *)
(***************************************************************************)
\* A null cell (the code 0 occurs in no text).
NullDate == <<0>>

MaxRows == 3

MinYear == 2000

MaxYear == 2030

\* The posted_date values of the comments: "2019-", "2023-", the short
\* "202", the malformed "201:", the empty string, "1999-", and null.
Dates == {<<50, 48, 49, 57, 45>>, <<50, 48, 50, 51, 45>>, <<50, 48, 50>>,
          <<50, 48, 49, 58>>, <<>>, <<49, 57, 57, 57, 45>>, NullDate}

\* The partition directory year=other.
Other == <<111, 116, 104, 101, 114>>

\* The i-th comment, posted on d.
CommentRow(i, d) ==
    [c \in ColSet(Schema("comments")) |->
        IF c = "posted_date" THEN d ELSE <<48 + i>>]

\* str.isdigit()
isdigit(y) == y # <<>> /\ \A i \in DOMAIN y : y[i] \in 48..57

RECURSIVE int(_)
int(y) ==
    IF y = <<>> THEN 0
    ELSE 10 * int(SubSeq(y, 1, Len(y) - 1)) + (y[Len(y)] - 48)

RECURSIVE str(_)
str(n) == IF n < 10 THEN <<48 + n>> ELSE Append(str(n \div 10), 48 + (n % 10))

\* a < b as strings: code by code, a proper prefix first.
RECURSIVE Less(_, _)
Less(a, b) ==
    IF b = <<>> THEN FALSE
    ELSE IF a = <<>> THEN TRUE
    ELSE IF Head(a) # Head(b) THEN Head(a) < Head(b)
    ELSE Less(Tail(a), Tail(b))

\* pc.utf8_slice_codeunits(..., start=0, stop=4)
utf8_slice_codeunits(d) == SubSeq(d, 1, IF Len(d) < 4 THEN Len(d) ELSE 4)

\* Line 396: the distinct non-null year strings.
unique_year_strings(rows) ==
    {utf8_slice_codeunits(r["posted_date"]) :
        r \in {x \in DOMAIN rows : x["posted_date"] # NullDate}}

\* Lines 400-401.
valid_years(rows) ==
    {y \in unique_year_strings(rows) :
        isdigit(y) /\ MinYear <= int(y) /\ int(y) <= MaxYear}

other_years(rows) == unique_year_strings(rows) \ valid_years(rows)

RECURSIVE sorted(_)
sorted(S) ==
    IF S = {} THEN <<>>
    ELSE LET m == CHOOSE x \in S : \A y \in S \ {x} : Less(x, y)
         IN  <<m>> \o sorted(S \ {m})

\* Lines 410-414: year_str <= posted_date < str(int(year_str) + 1); a
\* comparison with null is null and the filter drops the row.
year_filter(d, y) ==
    d # NullDate /\ ~Less(d, y) /\ Less(d, str(int(y) + 1))

\* Lines 441-445: not within [first valid year, last valid year + 1), or
\* null.
other_filter(d, lo, hi) ==
    \/ d = NullDate
    \/ ~(~Less(d, lo) /\ Less(d, str(int(hi) + 1)))

\* source.to_table(filter=...): the rows whose date is in the set.
Select(rows, keep) ==
    [r \in {x \in DOMAIN rows : x["posted_date"] \in keep} |-> rows[r]]

DatesOf(rows) == {r["posted_date"] : r \in DOMAIN rows}

OptKinds == <<"dockets", "documents">>

\* The columns the table of the kind is sorted by (lines 351, 366).
SortKeys(kind) ==
    IF kind = "dockets" THEN {"agency_code", "modify_date"}
    ELSE {"agency_code", "posted_date"}

Sortable(kind) ==
    /\ Readable(outFile[kind])
    /\ SortKeys(kind) \subseteq ColSet(outFile[kind].cols)

\* The comments files an optimizer run may find: up to MaxRows comments.
CommentFiles ==
    {Absent} \cup
    {Table(Schema("comments"),
           SetToBag({CommentRow(i, ds[i]) : i \in DOMAIN ds})) :
        ds \in UNION {[1..n -> Dates] : n \in 1..MaxRows}}

InitOpt ==
    /\ InitIdle
    /\ impl = "etl"
    /\ agencyList = <<"A", "B">>
    /\ agencies = agencyList
    /\ batch = NoBatch
    /\ r2 = EmptyR2
    /\ staging = NoStaging
    /\ \E d \in {Absent, FileOf(Schema("dockets"), {"k1"}),
                 FileOf(OldSchema("dockets"), {"k1"})},
          c \in CommentFiles :
          outFile = [kind \in KindSet |->
                        IF kind = "dockets" THEN d
                        ELSE IF kind = "comments" THEN c ELSE Absent]

\* main with --optimize-only.
OptStart ==
    /\ pc = "idle"
    /\ runs < MaxRuns
    /\ runs' = runs + 1
    /\ pc' = "opt_sort"
    /\ cur' = 1
    /\ startOut' = outFile
    /\ UNCHANGED <<impl, agencies, batch, agencyList, fullRefresh, mergeOnly,
                   fsVars, r2, processedKeys, totalRows, allNewKeys, task,
                   mFiles, optVars, fetched, loaded, startKeys, mergePre,
                   mergeReturned, saved, hist>>

\* Lines 346-376: a dockets / documents file that exists is read, sorted
\* and written over itself; pq.write_table opens the path for writing.
OptSortStart ==
    /\ pc = "opt_sort"
    /\ cur <= Len(OptKinds)
    /\ LET kind == OptKinds[cur]
       IN  IF ~Exists(outFile[kind])
           THEN /\ cur' = cur + 1
                /\ UNCHANGED <<pc, outFile, mFiles>>
           ELSE /\ Sortable(kind)
                /\ mFiles' = {outFile[kind]}
                /\ outFile' = [outFile EXCEPT ![kind] = Partial]
                /\ pc' = "opt_sort_write"
                /\ cur' = cur
    /\ UNCHANGED <<cfgVars, manifestFile, tempFile, staging, r2,
                   processedKeys, totalRows, allNewKeys, task, optVars,
                   ghostVars>>

OptSortFinish ==
    /\ pc = "opt_sort_write"
    /\ outFile' = [outFile EXCEPT ![OptKinds[cur]] = CHOOSE f \in mFiles : TRUE]
    /\ mFiles' = {}
    /\ cur' = cur + 1
    /\ pc' = "opt_sort"
    /\ UNCHANGED <<cfgVars, manifestFile, tempFile, staging, r2,
                   processedKeys, totalRows, allNewKeys, task, optVars,
                   ghostVars>>

\* read_table of a file that is no Parquet file, or sort_by on a column
\* the file does not have, raises.
OptSortError ==
    /\ pc = "opt_sort"
    /\ cur <= Len(OptKinds)
    /\ Exists(outFile[OptKinds[cur]])
    /\ ~Sortable(OptKinds[cur])
    /\ Abort
    /\ UNCHANGED <<fsVars, r2, optVars>>

\* An optimizer that does not remove the previous comments_optimized.
OptClean_keep_previous ==
    /\ pc = "opt_sort"
    /\ cur > Len(OptKinds)
    /\ IF Exists(outFile["comments"])
       THEN /\ optDir' = [st |-> "dir", parts |-> optDir.parts]
            /\ pc' = "opt_scan"
       ELSE /\ optDir' = optDir
            /\ pc' = "opt_done"
    /\ UNCHANGED <<cfgVars, fsVars, r2, runVars, optYears, ghostVars>>

\* Lines 378-387: without a comments file nothing more is done; with one,
\* the previous comments_optimized is removed and made anew.
OptClean ==
    /\ pc = "opt_sort"
    /\ cur > Len(OptKinds)
    /\ IF Exists(outFile["comments"])
       THEN /\ optDir' = [st |-> "dir", parts |-> <<>>]
            /\ pc' = "opt_scan"
       ELSE /\ optDir' = optDir
            /\ pc' = "opt_done"
    /\ UNCHANGED <<cfgVars, fsVars, r2, runVars, optYears, ghostVars>>

\* Lines 392-404: the valid years, sorted.
OptScan ==
    /\ pc = "opt_scan"
    /\ Readable(outFile["comments"])
    /\ valid_years(outFile["comments"].rows) # {}
    /\ optYears' = sorted(valid_years(outFile["comments"].rows))
    /\ pc' = "opt_year"
    /\ UNCHANGED <<cfgVars, fsVars, r2, runVars, optDir, ghostVars>>

\* Line 402: valid_years[0] of an empty list raises IndexError (as does
\* reading a file that is no Parquet file).
OptScanError ==
    /\ pc = "opt_scan"
    /\ ~(Readable(outFile["comments"])
            /\ valid_years(RowsOf(outFile["comments"])) # {})
    /\ Abort
    /\ UNCHANGED <<fsVars, r2, optVars>>

\* Lines 408-436: one valid year's partition.
OptYear ==
    /\ pc = "opt_year"
    /\ optYears # <<>>
    /\ LET y    == Head(optYears)
           rows == outFile["comments"].rows
           year_table == Select(rows, {d \in DatesOf(rows) : year_filter(d, y)})
       IN  optDir' = [optDir EXCEPT !.parts =
                        [p \in DOMAIN @ \cup {y} |->
                            IF p = y THEN year_table ELSE @[p]]]
    /\ optYears' = Tail(optYears)
    /\ UNCHANGED <<cfgVars, pc, fsVars, r2, runVars, ghostVars>>

\* Lines 438-459: the catch-all partition, written when there is an
\* invalid year string and the filter selects a row.
OptOther ==
    /\ pc = "opt_year"
    /\ optYears = <<>>
    /\ LET rows  == outFile["comments"].rows
           valid == sorted(valid_years(rows))
           other_table ==
               Select(rows, {d \in DatesOf(rows) :
                                other_filter(d, valid[1], valid[Len(valid)])})
       IN  IF other_years(rows) # {} /\ other_table # EmptyBag
           THEN optDir' = [optDir EXCEPT !.parts =
                             [p \in DOMAIN @ \cup {Other} |->
                                 IF p = Other THEN other_table ELSE @[p]]]
           ELSE optDir' = optDir
    /\ pc' = "opt_done"
    /\ UNCHANGED <<cfgVars, fsVars, r2, runVars, optYears, ghostVars>>

\* main, lines 530-540: unless --skip-upload, the dockets and documents
\* files and the comments_optimized directory are uploaded; main returns.
OptUpload ==
    /\ pc = "opt_done"
    /\ \E skip_upload \in BOOLEAN :
          r2' = IF skip_upload THEN r2
                ELSE [r2 EXCEPT
                        !.data = [kind \in KindSet |->
                                    IF kind # "comments" /\ Exists(outFile[kind])
                                    THEN outFile[kind] ELSE @[kind]],
                        !.optimized = IF optDir.st = "dir"
                                      THEN UploadDirectory(@, optDir) ELSE @]
    /\ EndRun("done")
    /\ UNCHANGED fsVars

\* The posted_date values of the comments a later run merges: "2019-" and
\* "2023-".
NewDates == {<<50, 48, 49, 57, 45>>, <<50, 48, 50, 51, 45>>}

\* Between two runs of the optimizer a run of main merges one new comment
\* into comments.parquet (lines 636-643): the file's rows and the new row.
CommentsMerged ==
    /\ pc = "idle"
    /\ 0 < runs
    /\ runs < MaxRuns
    /\ Readable(outFile["comments"])
    /\ BagCardinality(outFile["comments"].rows) < MaxRows
    /\ \E d \in NewDates :
          outFile' = [outFile EXCEPT !["comments"].rows =
              @ (+) SetToBag({CommentRow(BagCardinality(@) + 1, d)})]
    /\ UNCHANGED <<cfgVars, pc, manifestFile, tempFile, staging, r2, runVars,
                   optVars, ghostVars>>

NextOpt ==
    \/ OptStart
    \/ CommentsMerged
    \/ OptSortStart
    \/ OptSortFinish
    \/ OptSortError
    \/ OptClean
    \/ OptScan
    \/ OptScanError
    \/ OptYear
    \/ OptOther
    \/ OptUpload
    \/ Crash

SpecOpt == InitOpt /\ [][NextOpt]_vars

(***************************************************************************)
(* Properties of the orchestration (specification Spec).                   *)
(***************************************************************************)
\* The row of key k is in the kind's file among `files`.
InFile(k, files) == CopiesIn(extract(k), RowsOf(files[KeyKind(k)])) > 0

\* The phases of a run before merge_staging_files is called.
PreMerge == {"load", "load_dl", "download", "download_dl", "discover",
             "process"}

\* The phases of a run after every agency task has completed.
AfterProcess == {"merge", "merge_write", "merge_unlink", "merge_rename",
                 "cleanup", "save", "upload", "done"}

C2_SavedKeysAreMerged ==
    (impl = "etl" /\ saved) =>
        \A k \in ManifestKeys(manifestFile) \ loaded : InFile(k, outFile)

\* The well-formed objects of the agencies the runs are given.
Ingestible ==
    {k \in Keys : /\ HasId(k)
                  /\ \E i \in DOMAIN agencyList : agencyList[i] = KeyAgency(k)}

SecondRunIdle ==
    /\ ~AnyRows(totalRows)
    /\ Cardinality(ManifestKeys(manifestFile)) = Cardinality(startKeys)

\* C3 as stated: a completed incremental run after a completed incremental
\* run stages no row and leaves the manifest's key count unchanged.
C3_Idempotent ==
    (pc = "done" /\ ~fullRefresh /\ hist.how = "done") => SecondRunIdle

\* C3 as amended: the same, when the first run recorded every well-formed
\* object of its agencies (none of its fetches failed).
C3_IdempotentAfterCleanRun ==
    (pc = "done" /\ ~fullRefresh /\ hist.how = "done" /\ Ingestible \subseteq startKeys)
        => SecondRunIdle

\* C3 witness: a second incremental run that listed and fetched an object
\* (the malformed one) and ended without staging anything.
C3_Witness ==
    /\ pc = "done" /\ ~fullRefresh /\ hist.how = "done"
    /\ Ingestible \subseteq startKeys
    /\ fetched # {}

\* C4 as stated: no key of the manifest left by the run before is fetched.
C4_NoRefetch == fetched \cap startKeys = {}

\* C4 as amended: no key of the manifest the run loaded is fetched.
C4_NoRefetchOfLoaded == fetched \cap loaded = {}

\* C4 witness: a run that loaded a manifest and fetched other keys.
C4_Witness == loaded # {} /\ fetched # {} /\ pc = "done"

\* The keys the interrupted run had merged that the durable manifest does
\* not hold.
Unrecorded == hist.unsaved \ startKeys

RowsKept ==
    \A kind \in KindSet : RowsOf(startOut[kind]) \sqsubseteq RowsOf(outFile[kind])

C6_OutputUntouchedBeforeMerge ==
    pc \in PreMerge =>
        \A kind \in KindSet :
            IF Exists(startOut[kind]) THEN outFile[kind] = startOut[kind]
            ELSE outFile[kind] # Partial

(***************************************************************************)
(* Properties of merge_staging_files (specification SpecMerge).            *)
(***************************************************************************)
\* The merge of a kind has just completed; mergePre holds its inputs.
KindMerged == pc = "merge" /\ mergePre.kind # "none"

\* The input files of the merge: the existing output and the staging files.
MergeInputs ==
    (IF Exists(mergePre.out) THEN {mergePre.out} ELSE {})
        \cup {mergePre.stg[a] : a \in {x \in Agencies : Exists(mergePre.stg[x])}}

\* The merge went through the streaming writer (not the single-file move).
Streamed == Exists(mergePre.out) \/ Cardinality(MergeInputs) > 1

\* Every row of every input is in the output with the target's columns, a
\* null in each column its file lacked, and the output's column list is the
\* kind's declared list.
SchemaConformed ==
    LET kind == mergePre.kind
        out  == outFile[kind]
    IN  /\ out.cols = Schema(kind)
        /\ \A f \in MergeInputs : \A r \in DOMAIN f.rows :
              \E o \in DOMAIN out.rows :
                  /\ DOMAIN o = ColSet(Schema(kind))
                  /\ \A c \in ColSet(Schema(kind)) :
                        o[c] = IF c \in DOMAIN r THEN r[c] ELSE Null

\* C7 as stated: after the merge of a kind every row of every input file
\* carries an explicit null in each target column its file lacked, and the
\* merged file's columns are the declared ones in the declared order.
C7_SchemaEvolution == KindMerged => SchemaConformed

\* C7 as amended: the same, for a merge that goes through the streaming
\* writer (an output file exists or there are two or more staging files).
C7_SchemaEvolutionStreamed == (KindMerged /\ Streamed) => SchemaConformed

\* C7 witness: a streamed merge, complete, one of whose inputs lacked a
\* target column.
C7_Witness ==
    /\ KindMerged
    /\ Streamed
    /\ \E f \in MergeInputs : f.cols # Schema(mergePre.kind)

\* The number of rows of the bag whose identifier is k.
CountOf(rows, k) ==
    BagCardinality([r \in {x \in DOMAIN rows : x[Schema(KeyKind(k))[1]] = k}
                        |-> rows[r]])

RECURSIVE SumOver(_, _)
SumOver(files, k) ==
    IF files = {} THEN 0
    ELSE LET a == CHOOSE x \in files : TRUE
         IN  CountOf(RowsOf(mergePre.stg[a]), k) + SumOver(files \ {a}, k)

\* C10: after the merge of a kind the output holds, for every key, as many
\* rows as the existing output and the staging files held together:
\* nothing dropped, nothing de-duplicated.
C10_MergeConservesRows ==
    KindMerged =>
        \A k \in {x \in Keys : KeyKind(x) = mergePre.kind} :
            CountOf(RowsOf(outFile[mergePre.kind]), k) =
                CountOf(RowsOf(mergePre.out), k) + SumOver(Agencies, k)

\* C10 witness: a merge, complete, of an existing output and a staging
\* file that hold a row of the same key.
C10_Witness ==
    /\ KindMerged
    /\ Exists(mergePre.out)
    /\ \E a \in Agencies : \E k \in Keys :
          /\ CountOf(RowsOf(mergePre.stg[a]), k) > 0
          /\ CountOf(RowsOf(mergePre.out), k) > 0

(***************************************************************************)
(* Properties of optimize_parquet (specification SpecOpt).                 *)
(***************************************************************************)
RECURSIVE CopiesInParts(_, _)
CopiesInParts(r, ps) ==
    IF ps = {} THEN 0
    ELSE LET p == CHOOSE x \in ps : TRUE
         IN  CopiesIn(r, optDir.parts[p]) + CopiesInParts(r, ps \ {p})

\* C8: after optimize_parquet every row of the comments file is in exactly
\* one partition of comments_optimized: none dropped, none written twice.
C8_EveryRowInOnePartition ==
    pc = "opt_done" =>
        \A r \in DOMAIN RowsOf(outFile["comments"]) :
            CopiesInParts(r, DOMAIN optDir.parts) =
                CopiesIn(r, RowsOf(outFile["comments"]))

\* C9: every row in a partition year=Y has a posted_date whose first four
\* characters are Y.
C9_PartitionMembership ==
    \A p \in DOMAIN optDir.parts \ {Other} :
        \A r \in DOMAIN optDir.parts[p] :
            /\ r["posted_date"] # NullDate
            /\ utf8_slice_codeunits(r["posted_date"]) = p

(***************************************************************************)
(* Properties of process_agency and of the aggregation (specification      *)
(* Spec).                                                                  *)
(***************************************************************************)
\* The sum of total_rows over the kinds.
RECURSIVE Total(_, _)
Total(rows, n) == IF n = 0 THEN 0 ELSE rows[Kinds[n]] + Total(rows, n - 1)

\* C11: in a run of etl.py that saved the manifest, the number of keys the
\* saved manifest holds beyond the manifest the run loaded equals the number
\* of rows the run staged, summed over the kinds.
C11_ManifestGrowthEqualsRows ==
    (impl = "etl" /\ saved) =>
        Cardinality(ManifestKeys(manifestFile) \ loaded) =
            Total(totalRows, Len(Kinds))

\* The tasks of the run whose process_agency has returned.
Returned == {i \in DOMAIN task : task[i].st \in {"returned", "done"}}

\* The object's GET was served in task i, its content parsed and its
\* extracted row carries an identifier.
FetchedAndParsed(i, k) == k \in task[i].got /\ HasId(k)

\* Every object of a selected agency that the loaded manifest lacks.
Missing ==
    {k \in Keys : /\ k \notin loaded
                  /\ \E i \in DOMAIN agencyList : agencyList[i] = KeyAgency(k)}

\* C12: (etl.py) a key is in the new_keys process_agency returns if and only
\* if its fetch and parse succeeded and its extracted row has a non-empty
\* identifier; a saved manifest holds, beyond the keys loaded, only such
\* keys; and a run whose agency tasks all returned has listed and fetched
\* every object of its agencies that the manifest it loaded lacks (so the
\* keys left out are listed again on the next run).
C12_NewKeysAreSuccessfulKeys ==
    impl = "etl" =>
        /\ \A i \in Returned : \A k \in Keys :
              k \in task[i].newKeys <=> FetchedAndParsed(i, k)
        /\ saved =>
              \A k \in ManifestKeys(manifestFile) \ loaded :
                  \E i \in Returned : FetchedAndParsed(i, k)
        /\ pc \in AfterProcess => Missing \subseteq fetched

\* C12 witness: a second run of etl.py, complete, that fetched again the
\* key whose GET failed in the first run and recorded it, and fetched again
\* the malformed object and the object without identifier, which it did not
\* record.
C12_Witness ==
    /\ impl = "etl" /\ agencyList = <<"A", "B">>
    /\ hist.how = "done" /\ pc = "done" /\ saved
    /\ "k4" \in loaded
    /\ {"k2", "k3", "k5"} \subseteq fetched
    /\ "k2" \in ManifestKeys(manifestFile)
    /\ {"k3", "k5"} \cap ManifestKeys(manifestFile) = {}

\* C13: (Prefect pipeline) every key process_agency returns as new, and
\* every key the flow then saves to the manifest beyond those loaded, is a
\* key whose download_and_parse yielded a row; a key whose extractor
\* returned None is not among them.
C13_FlowNewKeysHaveRows ==
    impl = "flow" =>
        /\ \A i \in Returned : \A k \in task[i].newKeys :
              flow_download_and_parse(k) # None
        /\ saved =>
              \A k \in ManifestKeys(manifestFile) \ loaded :
                  flow_download_and_parse(k) # None

(***************************************************************************)
(* Properties of the failure handling (specification Spec).                *)
(***************************************************************************)
\* C14: a run is not ended by the failure of one agency's task while
\* another agency's task has returned rows or new keys: those are merged
\* and recorded by the run.
C14_AgencyFailureIsolated ==
    [][(pc = "process" /\ pc' = "idle" /\ hist'.how = "aborted") =>
          \A i \in DOMAIN task :
              task[i].newKeys = {} /\ ~AnyRows(task[i].results)]_vars

\* The objects of agency a outside the loaded manifest whose GET is always
\* served and whose record is kept.
Siblings(a) ==
    {k \in Keys \ Flaky : /\ KeyAgency(k) = a
                          /\ k \notin loaded
                          /\ flow_download_and_parse(k) # None}

\* C15: (Prefect pipeline) when the GET of an object still fails after the
\* task's retries, the agency's processing does not fail and the records of
\* the sibling objects of that agency are in its staging files.
C15_FlowObjectFailureIsolated ==
    impl = "flow" =>
        \A i \in DOMAIN task :
            task[i].raised = "get" =>
                /\ task[i].st # "failed"
                /\ \A k \in Siblings(agencyList[i]) :
                      InFile(k, [kind \in KindSet |->
                                    staging[<<kind, agencyList[i]>>]])

\* The objects whose GET task i was served and whose record it kept.
Collected(i, kind) ==
    {k \in task[i].got : KeyKind(k) = kind /\ HasId(k)}

\* C16: (etl.py) an object whose fetch, decoding or extraction raises costs
\* its own result only: no agency task fails by it, every task counts and
\* returns the result of every object it was served and could parse, and
\* every object of the agency whose GET is served is fetched by a task of
\* that agency.
C16_EtlObjectFailureIsolated ==
    impl = "etl" =>
        /\ \A i \in DOMAIN task : task[i].raised # "get"
        /\ \A i \in Returned : \A kind \in KindSet :
              /\ task[i].results[kind] = Cardinality(Collected(i, kind))
              /\ Collected(i, kind) \subseteq task[i].newKeys
        /\ \A i \in Returned :
           \A k \in {x \in Keys \ (Flaky \cup loaded) :
                        KeyAgency(x) = agencyList[i]} :
              \E j \in Returned :
                  agencyList[j] = agencyList[i] /\ k \in task[j].got

\* C16 witness: a run of etl.py that went on to merge and save the manifest
\* after the GET of k2 failed and the extraction of k3 raised: the sibling
\* k1 is merged and recorded.
C16_Witness ==
    /\ impl = "etl" /\ agencyList = <<"A", "B">>
    /\ pc = "done" /\ mergeReturned /\ saved
    /\ "k2" \in fetched /\ "k2" \notin task[1].got
    /\ "k3" \in task[2].got
    /\ "k1" \in task[1].newKeys
    /\ "k1" \in ManifestKeys(manifestFile)
    /\ InFile("k1", outFile)

(***************************************************************************)
(* Properties of the merge within a run (specification Spec).              *)
(***************************************************************************)
\* The phases of a run inside merge_staging_files.
Merging == {"merge", "merge_write", "merge_unlink", "merge_rename"}

\* C17: while merge_staging_files runs, and ever after in the run, every
\* agency task of the run has completed (no task is running or failed, so
\* each has written its staging files); and once merge_staging_files has
\* returned the run is not in it again.
C17_MergeBarrier ==
    /\ pc \in AfterProcess =>
          \A i \in DOMAIN task : task[i].st \in {"returned", "done"}
    /\ mergeReturned => pc \in AfterProcess \ Merging

\* C17 witness: merge_staging_files is running after two agency tasks that
\* each staged rows.
C17_Witness ==
    /\ pc \in Merging
    /\ Len(task) = 2
    /\ \A i \in DOMAIN task : AnyRows(task[i].results)

\* C18: during the streaming merge of a kind, while the temporary merged
\* file is being written the kind's output file is as it was when the merge
\* of the kind began; when the output file is unlinked and replaced, every
\* input has been written to the temporary file and its writer is closed.
C18_OutputKeptUntilTempClosed ==
    /\ pc = "merge_write" =>
          /\ tempFile[Kinds[cur]].st = "writing"
          /\ outFile[Kinds[cur]] = mergePre.out
    /\ pc \in {"merge_unlink", "merge_rename"} =>
          /\ tempFile[Kinds[cur]].st = "ok"
          /\ mFiles = {}

\* C18 witness: the prior output file of the kind has been unlinked, with
\* the temporary file closed and holding the prior file's rows.
C18_Witness ==
    /\ pc = "merge_rename"
    /\ Readable(mergePre.out)
    /\ outFile[Kinds[cur]] = Absent
    /\ tempFile[Kinds[cur]].st = "ok"
    /\ ConformTable(mergePre.out, Schema(Kinds[cur]))
          \sqsubseteq tempFile[Kinds[cur]].rows

\* The next input file of the streaming merge cannot be read.
ReadFails ==
    /\ pc = "merge_write"
    /\ mFiles # {}
    /\ ~Readable(FileAt(Kinds[cur], NextFile(mFiles)))

\* C19: when an input file of the merge of a kind cannot be read, the only
\* step of the run is its end (the file is not passed over); that step
\* leaves every output file and the manifest as they are, the kind's output
\* file being as it was when the merge of the kind began, and the run has
\* not saved the manifest.
C19_MergeReadErrorIsFatal ==
    [][ReadFails =>
          /\ pc' = "idle"
          /\ outFile' = outFile
          /\ outFile[Kinds[cur]] = mergePre.out
          /\ manifestFile' = manifestFile
          /\ ~saved]_vars

\* C19 witness: a run ended by a read error of the merge: the kind's
\* output file is the unreadable input, still in place beside the closed
\* temporary file.
C19_Witness ==
    /\ pc = "idle"
    /\ hist.how = "merge_error"
    /\ \E kind \in KindSet :
          /\ outFile[kind] = Partial
          /\ tempFile[kind].st = "ok"

(***************************************************************************)
(* Properties of the manifest across runs (specification Spec).            *)
(***************************************************************************)
\* C20: in every run that saves the manifest, in any mode, the saved key
\* set holds every key of the manifest that existed when the run started
\* (the local manifest.parquet or, without one, the manifest in R2).
C20_ManifestOnlyGrows ==
    saved => startKeys \subseteq ManifestKeys(manifestFile)

(***************************************************************************)
(* Properties of the dataset in durable storage (specification Spec).      *)
(***************************************************************************)
\* C21: every upload of a kind's dataset file leaves in durable storage
\* every row the file there held before: the uploaded dataset of a run
\* contains the dataset uploaded by the run before it.
C21_UploadedDatasetOnlyGrows ==
    [][\A kind \in KindSet :
          RowsOf(r2.data[kind]) \sqsubseteq RowsOf(r2'.data[kind])]_vars

(***************************************************************************)
(* Properties of the staging files (specifications SpecMerge and Spec).    *)
(***************************************************************************)
\* C22: when a --merge-only run has returned, no staging file of the kinds
\* it merged remains (so a later run cannot merge the same rows again).
C22_StagingConsumedByMerge ==
    (pc = "idle" /\ hist.how = "done") =>
        \A p \in KindSet \X Agencies : ~Exists(staging[p])

\* C23: when an agency task returned no row of a kind (nothing listed, or
\* no valid record), there is no staging file for that agency and kind, so
\* a later merge sees no file for the pair.
C23_NoStagingFileForEmptyRows ==
    \A i \in Returned : \A kind \in KindSet :
        task[i].results[kind] = 0 =>
            ~Exists(staging[<<kind, agencyList[i]>>])

(***************************************************************************)
(* Properties of load_manifest and of the run's phases (specification      *)
(* Spec).                                                                  *)
(***************************************************************************)
\* The phases of a run inside load_manifest.
Loading == {"load", "load_dl"}

\* C24: load_manifest ends by returning (the run is not ended by an
\* exception of it), and it returns the keys of the local manifest file
\* when the file exists, otherwise the keys of the remote copy when the
\* download succeeded, otherwise the empty set.
C24_LoadManifestReturns ==
    [][(pc \in Loading /\ pc' \notin Loading /\ hist'.how # "crashed") =>
          /\ pc' = "download"
          /\ processedKeys' =
                IF pc = "load" /\ Exists(manifestFile)
                THEN ManifestKeys(manifestFile)
                ELSE IF pc = "load_dl" /\ Readable(manifestFile')
                THEN ManifestKeys(r2.manifest)
                ELSE {}]_vars

\* C25: (etl.py) once every agency task has finished, total_rows is the sum
\* of the row counts the tasks returned, all_new_keys holds the new keys of
\* every task, and processed_keys is the loaded manifest united with all the
\* new keys: no task's update is lost.
C25_NoLostUpdates ==
    (impl = "etl" /\ pc \in AfterProcess) =>
        /\ totalRows = SumResults(task, Len(task))
        /\ allNewKeys = AllKeys(task, Len(task))
        /\ processedKeys =
              loaded \cup UNION {task[i].newKeys : i \in DOMAIN task}

\* C25 witness: two tasks of etl.py have finished, each with rows and new
\* keys of its own, and both are in the totals.
C25_Witness ==
    /\ impl = "etl" /\ pc = "merge"
    /\ Len(task) = 2
    /\ task[1].newKeys # {} /\ task[2].newKeys # {}
    /\ task[1].newKeys \cup task[2].newKeys \subseteq processedKeys
    /\ Total(totalRows, Len(Kinds)) =
          Total(task[1].results, Len(Kinds)) + Total(task[2].results, Len(Kinds))

\* C26: no two agency tasks of one run write the same staging file path:
\* two tasks that each staged rows of a kind are tasks of different
\* agencies.
C26_NoSharedStagingPath ==
    \A i \in Returned : \A j \in Returned \ {i} : \A kind \in KindSet :
        (task[i].results[kind] > 0 /\ task[j].results[kind] > 0) =>
            agencyList[i] # agencyList[j]

(***************************************************************************)
(* Properties of the upload (specification Spec).                          *)
(***************************************************************************)
\* C27: the step in which an upload fails leaves every local dataset file
\* and the local manifest as they are; and when the run that follows has
\* completed its upload, durable storage holds every row of the dataset
\* files the failed run left and, after an incremental run, every key of
\* the manifest it left.
C27_UploadErrorKeepsLocalState ==
    /\ [][(pc = "upload" /\ hist'.how = "upload_error") =>
             /\ outFile' = outFile
             /\ manifestFile' = manifestFile]_vars
    /\ []((hist.how = "upload_error" /\ pc = "done") =>
             /\ \A kind \in KindSet :
                   RowsOf(startOut[kind]) \sqsubseteq RowsOf(r2.data[kind])
             /\ ~fullRefresh => startKeys \subseteq ManifestKeys(r2.manifest))

\* C27 witness: the run after a failed upload has uploaded the dataset file
\* and the keys of the manifest that the failed run had written and left
\* (a manifest without k2, which no earlier upload had put in R2).
C27_Witness ==
    /\ hist.how = "upload_error" /\ pc = "done"
    /\ "k1" \in startKeys /\ "k2" \notin startKeys
    /\ startKeys \subseteq ManifestKeys(r2.manifest)
    /\ Readable(startOut["dockets"])
    /\ r2.data["dockets"] = startOut["dockets"]

(***************************************************************************)
(* Properties of the extract functions (specification Spec).               *)
(***************************************************************************)
\* The objects with an id whose attributes have no title.
Untitled == {k \in Keys : KeyContent(k) = "notitle"}

\* C28: a record with an id and no data.attributes.title is extracted
\* without raising to a row whose title is null; a task that was served it
\* counts it and returns its key as new, and a run that saved the manifest
\* after that holds its key in the manifest and its row in the merged file.
C28_MissingTitleIsNull ==
    \A k \in Untitled :
        /\ ~extract_raises(k)
        /\ extract(k)["title"] = Null
        /\ extract(k)[Schema(KeyKind(k))[1]] = k
        /\ \A i \in Returned :
              k \in task[i].got =>
                  /\ k \in task[i].newKeys
                  /\ task[i].results[KeyKind(k)] > 0
                  /\ saved => /\ k \in ManifestKeys(manifestFile)
                              /\ InFile(k, outFile)

\* C28 witness: a run of etl.py fetched the record without title, merged
\* its row, whose title is null, and saved its key.
C28_Witness ==
    /\ impl = "etl" /\ saved /\ pc = "done"
    /\ \E k \in Untitled : \E i \in Returned :
          /\ k \in task[i].got
          /\ k \in ManifestKeys(manifestFile)
          /\ \E r \in DOMAIN RowsOf(outFile[KeyKind(k)]) :
                r[Schema(KeyKind(k))[1]] = k /\ r["title"] = Null

\* C29: the extract function raises on no document it is applied to: for
\* every object a task was served and parsed, it returned a row or None.
C29_ExtractNeverRaises ==
    \A i \in Returned : \A k \in task[i].got : ~extract_raises(k)

\* The phase of the run a control point belongs to, in the order of main:
\* load manifest (with the download of the existing files), discover
\* agencies (with the batch slice), process agencies, merge staging (with
\* the removal of the staging directory), save manifest, upload, done.
Phase(p) ==
    IF p \in {"load", "load_dl", "download", "download_dl"} THEN 1
    ELSE IF p = "discover" THEN 2
    ELSE IF p = "process" THEN 3
    ELSE IF p \in Merging \cup {"cleanup"} THEN 4
    ELSE IF p = "save" THEN 5
    ELSE IF p = "upload" THEN 6
    ELSE 7

\* C30: within a run the phases follow one another in the order load
\* manifest, discover agencies, process agencies, merge staging, save
\* manifest, upload, done, and none is entered again once left; the manifest
\* is saved only in the save phase and durable storage written only in the
\* upload phase (so no upload begins before the run's save); and the agency
\* tasks change only in the discover and process phases (so no agency is
\* processed after the merge has started).
C30_PhaseOrder ==
    [][(pc # "idle" /\ pc' # "idle") =>
          /\ Phase(pc) <= Phase(pc')
          /\ (saved' # saved) => pc = "save"
          /\ (r2' # r2) => pc = "upload"
          /\ (task' # task \/ fetched' # fetched) =>
                pc \in {"discover", "process"}]_vars

\* C30 witness: a run that went through every phase: it loaded a manifest,
\* processed two agencies, merged, saved and uploaded the manifest.
C30_Witness ==
    /\ pc = "done"
    /\ loaded # {}
    /\ Len(task) = 2 /\ fetched # {}
    /\ mergeReturned /\ saved
    /\ r2.manifest = manifestFile

(***************************************************************************)
(* Properties of a resumed run (specification Spec).                       *)
(***************************************************************************)
\* The objects of an agency of one kind.
AgencyKeys(a, kind) == {k \in Keys : KeyAgency(k) = a /\ KeyKind(k) = kind}

\* Task i ends in this step: process_agency returns or raises.
TaskEnds(i) ==
    /\ pc = "process"
    /\ task[i].st = "running"
    /\ i \in DOMAIN task'
    /\ task'[i].st # "running"

\* C31: in a run that loaded a non-empty manifest every entry of the agency
\* list has a task (no agency is skipped), no run reaches the merge or a
\* later phase with a task that has not completed, and a task for an
\* agency whose keys of a kind are all in the loaded manifest fetches none
\* of them, leaves the agency's staging file of the kind as it was and
\* reports zero rows and no new key for the kind; so an agency all of whose
\* keys are in the manifest causes no fetch, writes no staging file and
\* contributes zero rows and zero new keys.
C31_TransparentResume ==
    /\ [][\A i \in DOMAIN task :
            (TaskEnds(i) /\ loaded # {}) =>
               \A kind \in KindSet :
                  AgencyKeys(agencyList[i], kind) \subseteq loaded =>
                     /\ fetched' \cap AgencyKeys(agencyList[i], kind) = {}
                     /\ staging'[<<kind, agencyList[i]>>]
                           = staging[<<kind, agencyList[i]>>]
                     /\ task'[i].results[kind] = 0
                     /\ task'[i].newKeys
                           \cap AgencyKeys(agencyList[i], kind) = {}]_vars
    /\ [](loaded # {} =>
            /\ pc = "process" => DOMAIN task = DOMAIN agencyList
            /\ pc \in AfterProcess =>
                  /\ DOMAIN task = DOMAIN agencyList
                  /\ \A i \in DOMAIN task : task[i].st \in {"returned", "done"})

\* C31 witness: in a run that loaded a non-empty manifest, the task of an
\* agency all of whose keys are in the manifest has returned with zero rows
\* and no new key, having fetched nothing and staged nothing.
C31_Witness ==
    /\ pc = "process"
    /\ loaded # {}
    /\ \E i \in DOMAIN task :
          /\ task[i].st = "returned"
          /\ \A kind \in KindSet : AgencyKeys(agencyList[i], kind) \subseteq loaded
          /\ UNION {AgencyKeys(agencyList[i], kind) : kind \in KindSet} # {}
          /\ task[i].results = ZeroRows
          /\ task[i].newKeys = {}
          /\ fetched = {}
          /\ staging = NoStaging

(***************************************************************************)
(* Properties of merge_staging_files (specification SpecMerge).            *)
(***************************************************************************)
\* merge_staging_files comes to a kind that has exactly one staging file
\* and no output file.
OneStagingFileNoOutput(kind) ==
    /\ pc = "merge"
    /\ cur <= Len(Kinds)
    /\ kind = Kinds[cur]
    /\ Cardinality(StagingOf(kind)) = 1
    /\ ~Exists(outFile[kind])

\* C32: when merge_staging_files comes to a kind that has exactly one
\* staging file and no output file, its next step moves that file to the
\* output path: the output file is that very file (its rows and its own
\* columns, not rewritten through the writer, whose temporary file is not
\* opened), the staging file no longer exists, no other file changes, and
\* the loop goes on to the next kind.
C32_SingleFileMoved ==
    [][\A kind \in KindSet, a \in Agencies :
          (OneStagingFileNoOutput(kind) /\ StagingOf(kind) = {a}
              /\ pc' # "idle") =>
             /\ outFile' = [outFile EXCEPT ![kind] = staging[<<kind, a>>]]
             /\ RowsOf(outFile'[kind]) = RowsOf(staging[<<kind, a>>])
             /\ staging' = [staging EXCEPT ![<<kind, a>>] = Absent]
             /\ tempFile' = tempFile
             /\ pc' = "merge"
             /\ cur' = cur + 1]_vars

\* C32 witness: the single staging file of the dockets, written under the
\* earlier schema, has been moved to dockets.parquet: the output holds its
\* row under the file's own columns and the staging file is gone.
C32_Witness ==
    /\ pc = "merge"
    /\ mergePre.kind = "dockets"
    /\ ~Exists(mergePre.out)
    /\ mergePre.stg["A"] = FileOf(OldSchema("dockets"), {"k1"})
    /\ ~Exists(mergePre.stg["B"])
    /\ outFile["dockets"] = mergePre.stg["A"]
    /\ StagingOf("dockets") = {}
    /\ tempFile = NoFiles

(***************************************************************************)
(* Properties of the rebuild of comments_optimized (specification          *)
(* SpecOpt).                                                               *)
(***************************************************************************)
\* The partitions a run of optimize_parquet writes from the rows of a
\* comments file (lines 406-457).
Rebuilt(rows) ==
    LET valid == sorted(valid_years(rows))
        other_table ==
            Select(rows, {d \in DatesOf(rows) :
                             other_filter(d, valid[1], valid[Len(valid)])})
        names == valid_years(rows) \cup
                 (IF other_years(rows) # {} /\ other_table # EmptyBag
                  THEN {Other} ELSE {})
    IN  [p \in names |->
            IF p = Other THEN other_table
            ELSE Select(rows, {d \in DatesOf(rows) : year_filter(d, p)})]

\* C33: when optimize_parquet has completed on a comments.parquet,
\* comments_optimized holds exactly the partitions this run wrote from the
\* current file, each with rows of the current file only: no partition
\* directory and no row of an earlier run is left in it.
C33_FullRebuild ==
    (pc = "opt_done" /\ Exists(outFile["comments"])) =>
        /\ optDir.st = "dir"
        /\ optDir.parts = Rebuilt(outFile["comments"].rows)
        /\ \A p \in DOMAIN optDir.parts :
              optDir.parts[p] \sqsubseteq outFile["comments"].rows

\* C33 witness: the optimizer has completed its second run in the
\* directory, on a comments file that grew since the first: the partition
\* year=other of the first run is gone and the new year has its partition.
C33_Witness ==
    /\ pc = "opt_done"
    /\ runs = 2
    /\ Readable(outFile["comments"])
    /\ DatesOf(outFile["comments"].rows)
          = {<<50, 48, 50, 51, 45>>, <<50, 48, 49, 58>>, <<50, 48, 49, 57, 45>>}
    /\ DatesOf(startOut["comments"].rows)
          = {<<50, 48, 50, 51, 45>>, <<50, 48, 49, 58>>, <<50, 48, 49, 57, 45>>}
    /\ DOMAIN optDir.parts = {<<50, 48, 49, 57>>, <<50, 48, 50, 51>>}
    /\ Other \in DOMAIN r2.optimized

\* The rows of a comments file whose posted_date yields no valid year:
\* null, or its first four characters are not a year from MinYear to MaxYear.
NoValidYear(rows) ==
    {r \in DOMAIN rows :
        \/ r["posted_date"] = NullDate
        \/ utf8_slice_codeunits(r["posted_date"]) \notin valid_years(rows)}

\* C34: on a comments file with rows optimize_parquet raises no exception,
\* whatever the posted_date column holds, and when it has completed every
\* row whose posted_date yields no valid year is in the partition
\* year=other.
C34_NoFailureOnMalformedDates ==
    /\ [][(pc = "opt_scan" /\ Readable(outFile["comments"])
              /\ outFile["comments"].rows # EmptyBag)
            => hist'.how # "aborted"]_vars
    /\ [](pc = "opt_done" /\ Readable(outFile["comments"]) =>
            \A r \in NoValidYear(outFile["comments"].rows) :
               /\ Other \in DOMAIN optDir.parts
               /\ CopiesIn(r, optDir.parts[Other])
                     = CopiesIn(r, outFile["comments"].rows))

(***************************************************************************)
(* Properties of the replacement of the output file (SpecMerge, Spec).     *)
(***************************************************************************)
\* The file holds the complete merged dataset of the kind being merged:
\* for every key the rows of the prior output and of the staging files.
HoldsMerged(f) ==
    /\ Readable(f)
    /\ \A k \in {x \in Keys : KeyKind(x) = mergePre.kind} :
          CountOf(RowsOf(f), k) =
              CountOf(RowsOf(mergePre.out), k) + SumOver(Agencies, k)

\* C35: from the start of the merge of a kind that has a readable prior
\* output until the merge of the kind is complete, <kind>.parquet exists
\* and is either the prior output file or the complete merged dataset.
C35_OutputValidDuringSwap ==
    (/\ pc \in Merging
     /\ mergePre.kind # "none"
     /\ Readable(mergePre.out)) =>
        /\ Exists(outFile[mergePre.kind])
        /\ \/ outFile[mergePre.kind] = mergePre.out
           \/ HoldsMerged(outFile[mergePre.kind])

(***************************************************************************)
(* Properties of the upload (specification Spec).                          *)
(***************************************************************************)
\* Durable storage is consistent: every key of the manifest in R2 has its
\* row in the dataset file of its kind in R2.
DurableConsistent ==
    \A k \in ManifestKeys(r2.manifest) : InFile(k, r2.data)

\* C36: the upload loop puts the manifest only after it has gone through
\* every per-kind dataset file of the run, and at every point of every run,
\* an interruption of the upload included, every key of the manifest in
\* durable storage has its row in the durable dataset files.
C36_ManifestUploadedLast ==
    /\ [][(r2'.manifest # r2.manifest) =>
             /\ pc = "upload"
             /\ cur > Len(Kinds)
             /\ \A kind \in KindSet :
                   Exists(outFile[kind]) => r2.data[kind] = outFile[kind]]_vars
    /\ []DurableConsistent

(***************************************************************************)
(* Properties of the batch slice (specification SpecBatch).                *)
(***************************************************************************)
\* ceil(n / s)
NumBatches(n, s) == (n + s - 1) \div s

\* The slice main takes for batch number b of size s.
BatchSlice(list, s, b) == BatchOf(list, [given |-> TRUE, number |-> b, size |-> s])

\* The slices of the batch numbers 0..b-1, one after the other.
RECURSIVE SlicesUpTo(_, _, _)
SlicesUpTo(list, s, b) ==
    IF b = 0 THEN <<>>
    ELSE SlicesUpTo(list, s, b - 1) \o BatchSlice(list, s, b - 1)

Entries(list) == {list[i] : i \in DOMAIN list}

\* The run was given a batch number beyond the last batch.
BeyondLastBatch ==
    batch.given /\ batch.number >= NumBatches(Len(agencies), batch.size)

\* C37: for the agency list and the batch size of the runs, the slices of
\* the batch numbers 0..ceil(n/s)-1, one after the other, are the agency
\* list (every entry in exactly one slice) and no two of them share an
\* agency; the slice of every larger batch number is empty.  A run is at
\* its agency tasks only with the slice of its batch number, and a run
\* whose batch number is beyond the last batch never merges, saves the
\* manifest or writes to R2: it ends at the batch slice.
C37_BatchesPartitionAgencies ==
    /\ [](LET n == Len(agencies)
              s == batch.size
          IN  /\ SlicesUpTo(agencies, s, NumBatches(n, s)) = agencies
              /\ \A b1, b2 \in 0..(NumBatches(n, s) - 1) :
                    b1 # b2 => Entries(BatchSlice(agencies, s, b1))
                                  \cap Entries(BatchSlice(agencies, s, b2)) = {}
              /\ \A b \in NumBatches(n, s)..(MaxBatchNumber + 1) :
                    BatchSlice(agencies, s, b) = <<>>
              /\ pc \in {"process"} \cup AfterProcess =>
                    /\ agencyList = BatchSlice(agencies, s, batch.number)
                    /\ DOMAIN task = DOMAIN agencyList
                    /\ ~BeyondLastBatch)
    /\ [][(pc # "idle" /\ BeyondLastBatch) =>
             /\ r2' = r2
             /\ manifestFile' # manifestFile => pc \in Loading
             /\ ~saved' /\ ~mergeReturned'
             /\ pc' \in {"load", "load_dl", "download", "download_dl",
                         "discover", "idle"}
             /\ task' = <<>>
             /\ pc = "discover" => (pc' = "idle" /\ outFile' = outFile
                                      /\ staging' = staging)]_vars

\* C37 witness: with batches of two over three agencies, the run of batch
\* number 1 processed the last agency alone, and the next run, given batch
\* number 2, has ended at the slice with nothing to process.
C37_Witness ==
    /\ pc = "idle"
    /\ hist.how = "no_agencies"
    /\ Len(agencies) = 3
    /\ batch = [given |-> TRUE, number |-> 2, size |-> 2]
    /\ agencyList = <<"C">>

(***************************************************************************)
(* Determinism of a run (specification Spec).                              *)
(***************************************************************************)
\* The first run in an empty output directory has reached "Done!" without
\* a failure: the manifest it loaded is the durable one (or none was to be
\* loaded), every download of an existing file succeeded (files are
\* downloaded when a manifest was loaded, and such a run of the model stages
\* no row, so its output files are the downloaded ones), every GET of an
\* object succeeded, and no task raised.
FailureFree ==
    /\ pc = "done"
    /\ runs = 1
    /\ ~fullRefresh => loaded = startKeys
    /\ loaded # {} => \A kind \in KindSet : outFile[kind].st # "partial"
    /\ \A i \in DOMAIN task : task[i].raised = "none"
    /\ \A i \in DOMAIN task : task[i].asked = task[i].got

\* The objects the run has to list: those of the agencies of its list that
\* are not in the manifest it loaded.
ToList(kind) ==
    UNION {list_json_files(a, kind, loaded) : a \in Entries(agencyList)}

\* What the inputs determine: the keys recorded and, for a kind, the rows
\* merged, when every fetch succeeds.
DeterminedKeys ==
    loaded \cup UNION {IF impl = "etl"
                       THEN EtlNewKeys(ToList(kind), ToList(kind))
                       ELSE FlowNewKeys(ToList(kind)) : kind \in KindSet}

DeterminedRows(kind) ==
    (IF loaded # {} THEN RowsOf(PriorTable(kind)) ELSE EmptyBag)
      (+) (IF impl = "etl"
           THEN SetToBag({download_and_parse(k, TRUE) :
                             k \in EtlGood(ToList(kind), ToList(kind))})
           ELSE SetToBag({flow_download_and_parse(k) :
                             k \in FlowKept(ToList(kind))}))

\* C38: when a run without failures is done, the manifest's key set and
\* each kind's bag of rows in the output file are the values determined by
\* the implementation, the agency list, the loaded manifest and the source
\* objects alone: they are the same whatever the order in which the agency
\* tasks listed, returned and were aggregated.
C38_DeterministicUnderScheduling ==
    FailureFree =>
        /\ ManifestKeys(manifestFile) = DeterminedKeys
        /\ \A kind \in KindSet : RowsOf(outFile[kind]) = DeterminedRows(kind)

(***************************************************************************)
(* Properties of the merge-only mode (specification SpecMerge).            *)
(***************************************************************************)
\* The rows of key k in the staging files of the kind.
RECURSIVE StagedCount(_, _, _)
StagedCount(kind, k, as) ==
    IF as = {} THEN 0
    ELSE LET a == CHOOSE x \in as : TRUE
         IN  CountOf(RowsOf(staging[<<kind, a>>]), k)
                + StagedCount(kind, k, as \ {a})

\* C39: no step of a merge-only run lists or fetches an object, starts an
\* agency task, changes the manifest file or writes to R2, and none changes
\* the output file of a kind that has no staging file; when the run
\* returns, for every kind whose staging files went through the writer
\* (they are still in the staging directory), the output holds the rows the
\* output had before together with those of the staging files.
C39_MergeOnlyFrame ==
    [][(mergeOnly /\ pc # "idle") =>
          /\ manifestFile' = manifestFile
          /\ r2' = r2
          /\ fetched' = {} /\ task' = <<>>
          /\ processedKeys' = {} /\ allNewKeys' = EmptyBag
          /\ ~saved'
          /\ \A kind \in KindSet :
                StagingOf(kind) = {} => outFile'[kind] = outFile[kind]
          /\ (pc' = "idle" /\ hist'.how = "done") =>
                /\ staging' = staging
                /\ \A kind \in KindSet :
                      StagingOf(kind) # {} =>
                         \A k \in {x \in Keys : KeyKind(x) = kind} :
                            CountOf(RowsOf(outFile[kind]), k) =
                               CountOf(RowsOf(startOut[kind]), k)
                                  + StagedCount(kind, k, Agencies)]_vars

\* C39 witness: a merge-only run has returned after merging two staging
\* files into the dockets: the comments, which had no staging file, are as
\* they were, there is no manifest and nothing in R2.
C39_Witness ==
    /\ pc = "idle"
    /\ mergeOnly
    /\ hist.how = "done"
    /\ StagingOf("dockets") = {"A", "B"}
    /\ \A k \in {"k1", "k2", "k3"} : CountOf(RowsOf(outFile["dockets"]), k) > 0
    /\ StagingOf("comments") = {}
    /\ outFile["comments"] = FileOf(Schema("comments"), {"k4"})
    /\ manifestFile = Absent
    /\ r2 = EmptyR2

====
